---- MODULE Spec2Model ----
(***************************************************************************)
(* Calder Creator: the session store (src/src/store/mobileStore.js) and    *)
(* the tree model (src/src/models/mobileTree.js).                          *)
(*                                                                         *)
(* JavaScript objects live in a heap: a node is a record at an address,    *)
(* an arm's leftChild/rightChild are addresses, the session's `mobile` is  *)
(* the address of the root object.  Numbers are fixed-point thousandths    *)
(* (0.5 is 500, a length of 2 scene units is 2000, a mass of 1 is 1000).   *)
(* The id string `node_<n>` is represented by the integer n.               *)
(***************************************************************************)
EXTENDS Integers, Sequences, FiniteSets, TLC

\* ---------------------------------------------------------------- bounds
MaxId == 15            \* ids generateId hands out before the counter is reset
MaxNodes == 11         \* nodes of the session tree
MaxLoadedNodes == 7    \* nodes of the session tree, in a session that loads trees
MaxEdits == 1          \* calls other than expandWeight and autoBalance
MaxUpdates == 2        \* updateWeight and updateArm calls of a session of updates only
MaxLoads == 1          \* calls that replace the whole tree, in a session that loads trees
MaxRuns == 1           \* autoBalance calls
MaxCallsPerFrame == 1  \* store calls between two animation frames of a running autoBalance
FrameMs == 250         \* time between two animation frames
MaxExports == 1        \* files exported in a session
MaxBalancedNodes == 5  \* nodes of the session tree, in a session that ends with autoBalance
MinFrameDelta == 400   \* thousandths of the canvas half-width a drag frame is followed at
MaxCollisions == 2     \* collision pairs reported and not yet cleared
MaxPendingResets == 2  \* timers of resetToEquilibrium pending at a time
RoundingTolerance == 5 \* thousandths of the full scale within which a rounded result is exact

\* ------------------------------------------------------ program constants
Null == 0
MAX_DEPTH == 5
PIVOT_MIN == 100
PIVOT_MAX == 900
ARM_LENGTH_MIN == 1000
ARM_LENGTH_MAX == 10000
WIRE_LENGTH_MIN == 200
WIRE_LENGTH_MAX == 3000
WEIGHT_MASS_MIN == 100
WEIGHT_MASS_MAX == 10000
WEIGHT_SIZE_MIN == 100
WEIGHT_SIZE_MAX == 1000
ARM_BASE_MASS == 100
ARM_MASS_PER_LENGTH == 50
THICKNESS_MIN == 20
THICKNESS_MAX == 200
duration == 500
MAX_TILT == 1          \* Math.PI / 6, the unit of the angles
DEFAULT_WIRE_LENGTH == 700
suspensionY == 5000
baseForce == 2
IMPULSE_MULTIPLIER == 800
baseTimestep == 8333   \* PHYSICS_CONFIG.baseTimestep, 1/120 s in microseconds

VARIABLES
  heap,          \* address -> node object
  mobile,        \* store.mobile: address of the session tree's root
  selectedId,    \* store.selectedId
  isAnimating,   \* store.isAnimating
  viewMode,      \* store.viewMode
  armYawAngles,  \* store.armYawAngles: arm id -> yaw
  idCounter,     \* mobileTree.js module variable idCounter
  runs,          \* pending animate() closures of autoBalance, oldest first
  presetTimer,   \* number of pending setTimeout(autoBalance, 100) of loadPreset
  importResult,  \* what the last importMobileJSON call returned
  calls,         \* number of calls made so far, per bounded operation
  frameCalls,    \* store calls made since the last animation frame while one is awaited
  lastOp,        \* the last store operation called and whether it replaced the tree
  intact,        \* no operation so far has written to an object of a tree in use
  files,         \* the files exportMobileJSON has downloaded so far
  physics,       \* store.physicsEnabled, isPaused, windIntensity, windMode, windDirection, physicsRefs
  forces,        \* the applyForce calls of the last frame of WindSystem: node id -> force
  orbitControlsEnabled, \* store.orbitControlsEnabled
  push,          \* the refs of PushInteraction: isDragging, draggedBody, the mouse positions
  removed,       \* the bodies the physics engine has removed: a call on one throws
  resumeTimers   \* number of pending setTimeout(..., 100) of resetToEquilibrium

vars == <<heap, mobile, selectedId, isAnimating, viewMode, armYawAngles,
          idCounter, runs, presetTimer, importResult, calls, frameCalls, lastOp, intact, files, physics, forces,
                 orbitControlsEnabled, push, removed, resumeTimers>>

\* ------------------------------------------------------------------ heap
Max(a, b) == IF a >= b THEN a ELSE b
Min(a, b) == IF a <= b THEN a ELSE b

\* The heap is the sequence of the objects in use; a new object literal gets
\* the next address.
Fresh(h) == Len(h) + 1
Alloc(h, n, obj) == Append(h, obj)

RECURSIVE Reach(_, _)
Reach(h, a) ==
  IF a = Null THEN {}
  ELSE IF h[a].type = "arm"
       THEN {a} \cup Reach(h, h[a].leftChild) \cup Reach(h, h[a].rightChild)
       ELSE {a}

RECURSIVE PreOrder(_, _)
PreOrder(h, a) ==
  IF a = Null THEN <<>>
  ELSE IF h[a].type = "arm"
       THEN <<a>> \o PreOrder(h, h[a].leftChild) \o PreOrder(h, h[a].rightChild)
       ELSE <<a>>

RECURSIVE Concat(_)
Concat(seqs) == IF seqs = <<>> THEN <<>> ELSE Head(seqs) \o Concat(Tail(seqs))

RECURSIVE Dedup(_, _)
Dedup(seq, seen) ==
  IF seq = <<>> THEN <<>>
  ELSE IF Head(seq) \in seen THEN Dedup(Tail(seq), seen)
       ELSE <<Head(seq)>> \o Dedup(Tail(seq), seen \cup {Head(seq)})

\* Objects no longer referenced by the store or by a pending closure are
\* collected.  Addresses carry no meaning, so the surviving objects are
\* renumbered in the order in which the roots reach them.
LiveOrder(h, roots) == Dedup(Concat([i \in DOMAIN roots |-> PreOrder(h, roots[i])]), {})
NewAddr(order, a) == IF a = Null THEN Null ELSE CHOOSE i \in DOMAIN order : order[i] = a
Collect(h, roots) ==
  LET order == LiveOrder(h, roots)
  IN [i \in DOMAIN order |->
        LET obj == h[order[i]]
        IN IF obj.type = "arm"
           THEN [obj EXCEPT !.leftChild = NewAddr(order, obj.leftChild),
                            !.rightChild = NewAddr(order, obj.rightChild)]
           ELSE obj]

\* -------------------------------------------------------- mobileTree.js
generateId(c) == c + 1

createWeight(id, color) ==
  [id |-> id, type |-> "weight", mass |-> 1000, shape |-> "sphere", size |-> 300,
   color |-> color, wireLength |-> 700, thickness |-> 50]

createArm(id, length, pivotPosition, wireLength) ==
  [id |-> id, type |-> "arm", length |-> length, pivotPosition |-> pivotPosition,
   wireLength |-> wireLength, leftChild |-> Null, rightChild |-> Null]

\* createInitialMobile on heap h: resets the counter, then root arm, left, right
createInitialMobile(h) ==
  LET rootId == generateId(0)
      leftId == generateId(rootId)
      rightId == generateId(leftId)
      ra == Fresh(h)
      h1 == Alloc(h, ra, createArm(rootId, 4000, 500, 700))
      la == Fresh(h1)
      h2 == Alloc(h1, la, createWeight(leftId, "#f97316"))
      rb == Fresh(h2)
      h3 == Alloc(h2, rb, createWeight(rightId, "#8b5cf6"))
  IN [heap |-> [h3 EXCEPT ![ra].leftChild = la, ![ra].rightChild = rb],
      root |-> ra, idCounter |-> rightId]

RECURSIVE findNode(_, _, _)
findNode(h, root, id) ==
  IF root = Null THEN Null
  ELSE IF h[root].id = id THEN root
  ELSE IF h[root].type = "arm"
       THEN LET leftResult == findNode(h, h[root].leftChild, id)
            IN IF leftResult # Null THEN leftResult
               ELSE findNode(h, h[root].rightChild, id)
       ELSE Null

RECURSIVE findParent(_, _, _, _)
findParent(h, root, id, parent) ==
  IF root = Null THEN Null
  ELSE IF h[root].id = id THEN parent
  ELSE IF h[root].type = "arm"
       THEN LET leftResult == findParent(h, h[root].leftChild, id, root)
            IN IF leftResult # Null THEN leftResult
               ELSE findParent(h, h[root].rightChild, id, root)
       ELSE Null

\* no copy: the caller gets the object it passed
cloneTree_Alias(h, node) == [heap |-> h, root |-> node]

RECURSIVE cloneTree(_, _)
cloneTree(h, node) ==
  IF node = Null THEN [heap |-> h, root |-> Null]
  ELSE IF h[node].type = "weight"
       THEN LET n == Fresh(h) IN [heap |-> Alloc(h, n, h[node]), root |-> n]
       ELSE LET L == cloneTree(h, h[node].leftChild)
                R == cloneTree(L.heap, h[node].rightChild)
                n == Fresh(R.heap)
            IN [heap |-> Alloc(R.heap, n, [h[node] EXCEPT !.leftChild = L.root,
                                                          !.rightChild = R.root]),
                root |-> n]

calculateArmMass(h, node) ==
  IF node = Null \/ h[node].type # "arm" THEN 0
  ELSE ARM_BASE_MASS + (h[node].length * ARM_MASS_PER_LENGTH) \div 1000

\* an arm counted without its own mass
RECURSIVE calculateSubtreeMass_NoArmMass(_, _)
calculateSubtreeMass_NoArmMass(h, node) ==
  IF node = Null THEN 0
  ELSE IF h[node].type = "weight" THEN h[node].mass
  ELSE IF h[node].type = "arm"
       THEN calculateSubtreeMass_NoArmMass(h, h[node].leftChild)
            + calculateSubtreeMass_NoArmMass(h, h[node].rightChild)
       ELSE 0

RECURSIVE calculateSubtreeMass(_, _)
calculateSubtreeMass(h, node) ==
  IF node = Null THEN 0
  ELSE IF h[node].type = "weight" THEN h[node].mass
  ELSE IF h[node].type = "arm"
       THEN calculateArmMass(h, node)
            + (calculateSubtreeMass(h, h[node].leftChild)
               + calculateSubtreeMass(h, h[node].rightChild))
       ELSE 0

RECURSIVE calculateDepth(_, _)
calculateDepth(h, node) ==
  IF node = Null THEN 0
  ELSE IF h[node].type = "weight" THEN 1
  ELSE 1 + Max(calculateDepth(h, h[node].leftChild),
               calculateDepth(h, h[node].rightChild))

RECURSIVE countNodes(_, _)
countNodes(h, node) ==
  IF node = Null THEN 0
  ELSE IF h[node].type = "weight" THEN 1
  ELSE 1 + countNodes(h, h[node].leftChild) + countNodes(h, h[node].rightChild)

RECURSIVE findDepth(_, _, _, _)
findDepth(h, node, targetId, currentDepth) ==
  IF node = Null THEN -1
  ELSE IF h[node].id = targetId THEN currentDepth
  ELSE IF h[node].type = "arm"
       THEN LET leftDepth == findDepth(h, h[node].leftChild, targetId, currentDepth + 1)
            IN IF leftDepth # -1 THEN leftDepth
               ELSE findDepth(h, h[node].rightChild, targetId, currentDepth + 1)
       ELSE -1

\* the depth test off by one
canExpandAt_OffByOne(h, root, weightId) ==
  LET weight == findNode(h, root, weightId)
  IN IF weight = Null \/ h[weight].type # "weight" THEN FALSE
     ELSE findDepth(h, root, weightId, 1) <= MAX_DEPTH

\* the type test left out: any node above level 5 can be expanded
canExpandAt_AnyType(h, root, weightId) ==
  LET weight == findNode(h, root, weightId)
  IN IF weight = Null THEN FALSE
     ELSE findDepth(h, root, weightId, 1) < MAX_DEPTH

canExpandAt(h, root, weightId) ==
  LET weight == findNode(h, root, weightId)
  IN IF weight = Null \/ h[weight].type # "weight" THEN FALSE
     ELSE findDepth(h, root, weightId, 1) < MAX_DEPTH

getNodeSide(h, root, nodeId) ==
  LET parent == findParent(h, root, nodeId, Null)
  IN IF parent = Null THEN "none"
     ELSE IF h[parent].leftChild # Null /\ h[h[parent].leftChild].id = nodeId THEN "left"
     ELSE IF h[parent].rightChild # Null /\ h[h[parent].rightChild].id = nodeId THEN "right"
     ELSE "none"

RECURSIVE collectArms(_, _)
collectArms(h, node) ==
  IF node = Null THEN <<>>
  ELSE IF h[node].type = "arm"
       THEN <<node>> \o collectArms(h, h[node].leftChild) \o collectArms(h, h[node].rightChild)
       ELSE <<>>

\* ------------------------------------------------------ balanceSolver.js
\* Distances are thousandths of a scene unit, torques (mass * distance) are
\* 10^-6; a product of two thousandths is divided by 1000, which is exact for
\* arms whose length is a whole number of units.  Angles are in units of
\* pi/6, so MAX_TILT is 1.  A number the solver gets by a division is the
\* fraction num/den, den > 0, which keeps its sign and its order exactly.
Frac(n, d) == [num |-> n, den |-> d]
Leq(x, y) == x.num * y.den <= y.num * x.den
MathMax(x, y) == IF Leq(y, x) THEN x ELSE y
MathMin(x, y) == IF Leq(x, y) THEN x ELSE y
Abs(n) == IF n < 0 THEN -n ELSE n

\* the arm's own torque left out
calculateArmSelfTorque_None(h, arm) == 0

\* armMass * arm.length * (0.5 - arm.pivotPosition)
calculateArmSelfTorque(h, arm) ==
  IF arm = Null \/ h[arm].type # "arm" THEN 0
  ELSE ((calculateArmMass(h, arm) * h[arm].length) \div 1000) * (500 - h[arm].pivotPosition)

\* leftTorque - rightTorque - armSelfTorque
netTorque(h, arm) ==
  LET leftMass == calculateSubtreeMass(h, h[arm].leftChild)
      rightMass == calculateSubtreeMass(h, h[arm].rightChild)
      leftDistance == (h[arm].pivotPosition * h[arm].length) \div 1000
      rightDistance == ((1000 - h[arm].pivotPosition) * h[arm].length) \div 1000
      leftTorque == leftMass * leftDistance
      rightTorque == rightMass * rightDistance
  IN leftTorque - rightTorque - calculateArmSelfTorque(h, arm)

\* totalMass * avgDistance
totalTorque(h, arm) ==
  LET leftMass == calculateSubtreeMass(h, h[arm].leftChild)
      rightMass == calculateSubtreeMass(h, h[arm].rightChild)
      leftDistance == (h[arm].pivotPosition * h[arm].length) \div 1000
      rightDistance == ((1000 - h[arm].pivotPosition) * h[arm].length) \div 1000
      totalMass == leftMass + rightMass + calculateArmMass(h, arm)
      avgDistance == (leftDistance + rightDistance) \div 2
  IN totalMass * avgDistance

\* the result not clamped to [-MAX_TILT, MAX_TILT]
calculateTiltAngle_Unclamped(h, arm) ==
  IF arm = Null \/ h[arm].type # "arm" THEN Frac(0, 1)
  ELSE IF totalTorque(h, arm) = 0 THEN Frac(0, 1)
  ELSE Frac(netTorque(h, arm) * MAX_TILT * 2, totalTorque(h, arm))

\* the torques of the two sides exchanged
calculateTiltAngle_Mirrored(h, arm) ==
  IF arm = Null \/ h[arm].type # "arm" THEN Frac(0, 1)
  ELSE IF totalTorque(h, arm) = 0 THEN Frac(0, 1)
  ELSE LET imbalance == Frac(-netTorque(h, arm), totalTorque(h, arm))
       IN MathMax(Frac(-MAX_TILT, 1),
                  MathMin(Frac(MAX_TILT, 1),
                          Frac(imbalance.num * MAX_TILT * 2, imbalance.den)))

\* positive: left side down
calculateTiltAngle(h, arm) ==
  IF arm = Null \/ h[arm].type # "arm" THEN Frac(0, 1)
  ELSE IF totalTorque(h, arm) = 0 THEN Frac(0, 1)
  ELSE LET imbalance == Frac(netTorque(h, arm), totalTorque(h, arm))
       IN MathMax(Frac(-MAX_TILT, 1),
                  MathMin(Frac(MAX_TILT, 1),
                          Frac(imbalance.num * MAX_TILT * 2, imbalance.den)))

\* 1 = perfectly balanced, 0 = very unbalanced
calculateBalanceRatio(h, arm) ==
  IF arm = Null \/ h[arm].type # "arm" THEN Frac(1, 1)
  ELSE IF totalTorque(h, arm) = 0 THEN Frac(1, 1)
  ELSE LET imbalance == Frac(Abs(netTorque(h, arm)), totalTorque(h, arm))
       IN MathMax(Frac(0, 1), Frac(imbalance.den - imbalance.num, imbalance.den))

\* --------------------------------------------------------- mobileStore.js
\* sum of the character codes of the id string `node_<n>`; the yaw angle is a
\* function of this hash alone and is represented by it
idHash(id) ==
  IF id < 10 THEN 517 + 48 + id
  ELSE 517 + (48 + (id \div 10)) + (48 + (id % 10))

RECURSIVE setAngles(_, _, _)
setAngles(h, arms, angles) ==
  IF arms = <<>> THEN angles
  ELSE LET id == h[Head(arms)].id
       IN setAngles(h, Tail(arms),
                    [x \in DOMAIN angles \cup {id} |->
                       IF x = id THEN idHash(id) ELSE angles[x]])

generateYawAngles(h, node) == setAngles(h, collectArms(h, node), <<>>)

Roots(m, rs) == <<m>> \o [i \in DOMAIN rs |-> rs[i].mobile]

Ids(h, root) == {h[a].id : a \in Reach(h, root)}
UnknownId == MaxId + 1
IdArgs == Ids(heap, mobile) \cup {UnknownId}

\* the state a set() call leaves behind; st has the fields of the store that
\* the tree operations write, plus the heap and the id counter
CurrentState ==
  [heap |-> heap, mobile |-> mobile, selectedId |-> selectedId,
   armYawAngles |-> armYawAngles, idCounter |-> idCounter]

expandWeight(st, weightId) ==
  IF ~canExpandAt(st.heap, st.mobile, weightId) THEN st
  ELSE
    LET c == cloneTree(st.heap, st.mobile)
        newMobile == c.root
        parent == findParent(c.heap, newMobile, weightId, Null)
        side == getNodeSide(c.heap, newMobile, weightId)
        oldWeight == findNode(c.heap, newMobile, weightId)
    IN IF parent = Null THEN st
       ELSE IF side = "none" THEN st
       ELSE IF oldWeight = Null \/ c.heap[oldWeight].type # "weight" THEN st
       ELSE
         LET armId == generateId(st.idCounter)
             leftId == generateId(armId)
             rightId == generateId(leftId)
             na == Fresh(c.heap)
             h1 == Alloc(c.heap, na, createArm(armId, 2000, 500, c.heap[oldWeight].wireLength))
             la == Fresh(h1)
             h2 == Alloc(h1, la, createWeight(leftId, c.heap[oldWeight].color))
             rb == Fresh(h2)
             h3 == Alloc(h2, rb, createWeight(rightId, "#22c55e"))
             h4 == [h3 EXCEPT ![na].leftChild = la, ![na].rightChild = rb]
             h5 == IF side = "left" THEN [h4 EXCEPT ![parent].leftChild = na]
                   ELSE [h4 EXCEPT ![parent].rightChild = na]
             newAngles == IF viewMode = "3d" THEN generateYawAngles(h5, newMobile)
                          ELSE st.armYawAngles
         IN [heap |-> h5, mobile |-> newMobile, selectedId |-> Null,
             armYawAngles |-> newAngles, idCounter |-> rightId]

\* the node is removed and nothing is put in its slot
deleteNode_EmptySlot(st, nodeId) ==
  IF st.heap[st.mobile].id = nodeId THEN st
  ELSE
    LET c == cloneTree(st.heap, st.mobile)
        newMobile == c.root
        parent == findParent(c.heap, newMobile, nodeId, Null)
        side == getNodeSide(c.heap, newMobile, nodeId)
    IN IF parent = Null THEN st
       ELSE IF side = "none" THEN st
       ELSE
         LET h2 == IF side = "left" THEN [c.heap EXCEPT ![parent].leftChild = Null]
                   ELSE [c.heap EXCEPT ![parent].rightChild = Null]
         IN [heap |-> h2, mobile |-> newMobile, selectedId |-> Null,
             armYawAngles |-> st.armYawAngles, idCounter |-> st.idCounter]

deleteNode(st, nodeId) ==
  IF st.heap[st.mobile].id = nodeId THEN st
  ELSE
    LET c == cloneTree(st.heap, st.mobile)
        newMobile == c.root
        parent == findParent(c.heap, newMobile, nodeId, Null)
        side == getNodeSide(c.heap, newMobile, nodeId)
    IN IF parent = Null THEN st
       ELSE IF side = "none" THEN st
       ELSE
         LET newId == generateId(st.idCounter)
             na == Fresh(c.heap)
             h1 == Alloc(c.heap, na, createWeight(newId, "#3b82f6"))
             h2 == IF side = "left" THEN [h1 EXCEPT ![parent].leftChild = na]
                   ELSE [h1 EXCEPT ![parent].rightChild = na]
         IN [heap |-> h2, mobile |-> newMobile, selectedId |-> Null,
             armYawAngles |-> st.armYawAngles, idCounter |-> newId]

clamp(lo, hi, v) == Max(lo, Min(hi, v))

\* Object.assign(target, updates)
ObjectAssign(obj, updates) ==
  [f \in DOMAIN obj \cup DOMAIN updates |->
     IF f \in DOMAIN updates THEN updates[f] ELSE obj[f]]

\* the size clamp left out
clampWeightUpdates_SizeUnclamped(updates) ==
  [f \in DOMAIN updates |->
     IF f = "wireLength" THEN clamp(WIRE_LENGTH_MIN, WIRE_LENGTH_MAX, updates[f])
     ELSE IF f = "mass" THEN clamp(WEIGHT_MASS_MIN, WEIGHT_MASS_MAX, updates[f])
     ELSE IF f = "thickness" THEN clamp(THICKNESS_MIN, THICKNESS_MAX, updates[f])
     ELSE updates[f]]

clampWeightUpdates(updates) ==
  [f \in DOMAIN updates |->
     IF f = "wireLength" THEN clamp(WIRE_LENGTH_MIN, WIRE_LENGTH_MAX, updates[f])
     ELSE IF f = "mass" THEN clamp(WEIGHT_MASS_MIN, WEIGHT_MASS_MAX, updates[f])
     ELSE IF f = "size" THEN clamp(WEIGHT_SIZE_MIN, WEIGHT_SIZE_MAX, updates[f])
     ELSE IF f = "thickness" THEN clamp(THICKNESS_MIN, THICKNESS_MAX, updates[f])
     ELSE updates[f]]

clampArmUpdates(updates) ==
  [f \in DOMAIN updates |->
     IF f = "pivotPosition" THEN clamp(PIVOT_MIN, PIVOT_MAX, updates[f])
     ELSE IF f = "length" THEN clamp(ARM_LENGTH_MIN, ARM_LENGTH_MAX, updates[f])
     ELSE IF f = "wireLength" THEN clamp(WIRE_LENGTH_MIN, WIRE_LENGTH_MAX, updates[f])
     ELSE updates[f]]

updateWeight(st, weightId, updates) ==
  LET c == cloneTree(st.heap, st.mobile)
      weight == findNode(c.heap, c.root, weightId)
  IN IF weight = Null \/ c.heap[weight].type # "weight" THEN st
     ELSE [st EXCEPT !.heap = [c.heap EXCEPT ![weight] =
                                 ObjectAssign(c.heap[weight], clampWeightUpdates(updates))],
                     !.mobile = c.root]

updateArm(st, armId, updates) ==
  LET c == cloneTree(st.heap, st.mobile)
      arm == findNode(c.heap, c.root, armId)
  IN IF arm = Null \/ c.heap[arm].type # "arm" THEN st
     ELSE [st EXCEPT !.heap = [c.heap EXCEPT ![arm] =
                                 ObjectAssign(c.heap[arm], clampArmUpdates(updates))],
                     !.mobile = c.root]

\* Map.set
MapSet(map, k, v) == [x \in DOMAIN map \cup {k} |-> IF x = k THEN v ELSE map[x]]

\* the target pivot not clamped
RECURSIVE calculateOptimalPivots_Unclamped(_, _, _)
calculateOptimalPivots_Unclamped(h, node, targetPivots) ==
  IF node = Null \/ h[node].type # "arm" THEN targetPivots
  ELSE
    LET t1 == calculateOptimalPivots_Unclamped(h, h[node].leftChild, targetPivots)
        t2 == calculateOptimalPivots_Unclamped(h, h[node].rightChild, t1)
        leftMass == calculateSubtreeMass(h, h[node].leftChild)
        rightMass == calculateSubtreeMass(h, h[node].rightChild)
        armMass == ARM_BASE_MASS + (h[node].length * ARM_MASS_PER_LENGTH) \div 1000
        totalMass == leftMass + rightMass + armMass
        optimalPivot == ((rightMass + (armMass \div 2)) * 1000) \div totalMass
    IN IF totalMass > 0 THEN MapSet(t2, h[node].id, optimalPivot) ELSE t2

\* the earlier version of autoBalance: rightMass / (leftMass + rightMass), the
\* arm's own mass left out
RECURSIVE calculateOptimalPivots_NoArmMass(_, _, _)
calculateOptimalPivots_NoArmMass(h, node, targetPivots) ==
  IF node = Null \/ h[node].type # "arm" THEN targetPivots
  ELSE
    LET t1 == calculateOptimalPivots_NoArmMass(h, h[node].leftChild, targetPivots)
        t2 == calculateOptimalPivots_NoArmMass(h, h[node].rightChild, t1)
        leftMass == calculateSubtreeMass(h, h[node].leftChild)
        rightMass == calculateSubtreeMass(h, h[node].rightChild)
        totalMass == leftMass + rightMass
    IN IF totalMass > 0
       THEN MapSet(t2, h[node].id,
                   clamp(PIVOT_MIN, PIVOT_MAX, (rightMass * 1000) \div totalMass))
       ELSE t2

\* autoBalance: targets bottom-up (children before the arm itself)
RECURSIVE calculateOptimalPivots(_, _, _)
calculateOptimalPivots(h, node, targetPivots) ==
  IF node = Null \/ h[node].type # "arm" THEN targetPivots
  ELSE
    LET t1 == calculateOptimalPivots(h, h[node].leftChild, targetPivots)
        t2 == calculateOptimalPivots(h, h[node].rightChild, t1)
        leftMass == calculateSubtreeMass(h, h[node].leftChild)
        rightMass == calculateSubtreeMass(h, h[node].rightChild)
        armMass == ARM_BASE_MASS + (h[node].length * ARM_MASS_PER_LENGTH) \div 1000
        totalMass == leftMass + rightMass + armMass
        optimalPivot == ((rightMass + (armMass \div 2)) * 1000) \div totalMass
    IN IF totalMass > 0
       THEN MapSet(t2, h[node].id, clamp(PIVOT_MIN, PIVOT_MAX, optimalPivot))
       ELSE t2

RECURSIVE storeInitialPivots(_, _, _)
storeInitialPivots(h, node, initialPivots) ==
  IF node = Null THEN initialPivots
  ELSE IF h[node].type = "arm"
       THEN LET i0 == MapSet(initialPivots, h[node].id, h[node].pivotPosition)
                i1 == storeInitialPivots(h, h[node].leftChild, i0)
            IN storeInitialPivots(h, h[node].rightChild, i1)
       ELSE initialPivots

\* progress and eased in thousandths
progressOf(elapsed) == Min(1000, (elapsed * 1000) \div duration)
easeOutCubic(progress) ==
  1000 - ((1000 - progress) * (1000 - progress) * (1000 - progress)) \div 1000000

\* the target not looked up: the pivot stays where it was
animatedPivot_NoTarget(run, id, eased) ==
  LET initial == IF id \in DOMAIN run.initialPivots THEN run.initialPivots[id] ELSE 500
      target == initial
  IN initial + ((target - initial) * eased) \div 1000

animatedPivot(run, id, eased) ==
  LET initial == IF id \in DOMAIN run.initialPivots THEN run.initialPivots[id] ELSE 500
      target == IF id \in DOMAIN run.targetPivots THEN run.targetPivots[id] ELSE initial
  IN initial + ((target - initial) * eased) \div 1000

RECURSIVE applyAnimatedPivots(_, _, _, _)
applyAnimatedPivots(h, node, run, eased) ==
  IF node = Null \/ h[node].type # "arm" THEN h
  ELSE
    LET h1 == [h EXCEPT ![node].pivotPosition = animatedPivot(run, h[node].id, eased)]
        h2 == applyAnimatedPivots(h1, h1[node].leftChild, run, eased)
    IN applyAnimatedPivots(h2, h2[node].rightChild, run, eased)

\* one call of animate() of the closure run: the tree it installs
animate(h, run) ==
  LET c == cloneTree(h, run.mobile)
  IN [heap |-> applyAnimatedPivots(c.heap, c.root, run, easeOutCubic(progressOf(run.elapsed))),
      root |-> c.root]

\* ------------------------------------------------- presets and import
\* A JSON tree is a value: leftChild and rightChild hold the subtrees.
JsonNull == [null |-> TRUE]

JsonWeight(mass, color) ==
  [type |-> "weight", mass |-> mass, shape |-> "sphere", size |-> 300,
   color |-> color, wireLength |-> 700, thickness |-> 50]

JsonArm(length, pivotPosition, left, right) ==
  [type |-> "arm", length |-> length, pivotPosition |-> pivotPosition,
   wireLength |-> 700, leftChild |-> left, rightChild |-> right]

\* config/presets.js: the preset table, presetId -> preset
PRESETS ==
  [cascade |->
     [tree |-> JsonArm(4000, 500,
                       JsonWeight(2000, "#f97316"),
                       JsonArm(2000, 500, JsonWeight(1000, "#eab308"),
                                          JsonWeight(1000, "#8b5cf6")))]]

getPresetById(presetId) ==
  IF presetId \in DOMAIN PRESETS THEN PRESETS[presetId] ELSE JsonNull

\* createMobileFromPreset: the counter restarts, every node is copied and gets
\* the next id, a node before its left subtree, the left before the right
RECURSIVE assignIds(_, _, _)
assignIds(h, c, node) ==
  IF node = JsonNull THEN [heap |-> h, root |-> Null, idCounter |-> c]
  ELSE IF node.type = "weight"
       THEN LET id == generateId(c)
                n == Fresh(h)
            IN [heap |-> Alloc(h, n, [f \in DOMAIN node \cup {"id"} |->
                                        IF f = "id" THEN id ELSE node[f]]),
                root |-> n, idCounter |-> id]
  ELSE IF node.type = "arm"
       THEN LET id == generateId(c)
                L == assignIds(h, id, node.leftChild)
                R == assignIds(L.heap, L.idCounter, node.rightChild)
                n == Fresh(R.heap)
            IN [heap |-> Alloc(R.heap, n,
                               [f \in DOMAIN node \cup {"id"} |->
                                  IF f = "id" THEN id
                                  ELSE IF f = "leftChild" THEN L.root
                                  ELSE IF f = "rightChild" THEN R.root
                                  ELSE node[f]]),
                root |-> n, idCounter |-> R.idCounter]
  ELSE [heap |-> h, root |-> Null, idCounter |-> c]

\* the counter not reset: the ids go on from the last one handed out
createMobileFromPreset_NoReset(h, presetTree) == assignIds(h, idCounter, presetTree)

createMobileFromPreset(h, presetTree) == assignIds(h, 0, presetTree)

\* the id left in the exported node
RECURSIVE stripIdsForExport_KeepsId(_, _)
stripIdsForExport_KeepsId(h, node) ==
  IF node = Null THEN JsonNull
  ELSE IF h[node].type = "weight" THEN h[node]
  ELSE IF h[node].type = "arm"
       THEN [h[node] EXCEPT !.leftChild = stripIdsForExport_KeepsId(h, h[node].leftChild),
                            !.rightChild = stripIdsForExport_KeepsId(h, h[node].rightChild)]
       ELSE JsonNull

\* the tree as a JSON value: every field but id, the children as values
RECURSIVE stripIdsForExport(_, _)
stripIdsForExport(h, node) ==
  IF node = Null THEN JsonNull
  ELSE IF h[node].type = "weight"
       THEN [f \in DOMAIN h[node] \ {"id"} |-> h[node][f]]
  ELSE IF h[node].type = "arm"
       THEN [f \in DOMAIN h[node] \ {"id"} |->
               IF f = "leftChild" THEN stripIdsForExport(h, h[node].leftChild)
               ELSE IF f = "rightChild" THEN stripIdsForExport(h, h[node].rightChild)
               ELSE h[node][f]]
       ELSE JsonNull

\* createdAt is the time of the call; import does not read it
exportMobileToJSON(h, m) ==
  [version |-> "1.0", createdAt |-> "toISOString", app |-> "Calder Creator",
   tree |-> stripIdsForExport(h, m)]

\* the type of the root not validated
importError_AnyRoot(json) ==
  IF json = JsonNull \/ "tree" \notin DOMAIN json \/ json.tree = JsonNull
  THEN "Invalid mobile format: missing tree data"
  ELSE ""

\* importMobileFromJSON: the error message when it throws, "" otherwise
importError(json) ==
  IF json = JsonNull \/ "tree" \notin DOMAIN json \/ json.tree = JsonNull
  THEN "Invalid mobile format: missing tree data"
  ELSE IF "type" \notin DOMAIN json.tree
          \/ (json.tree.type # "arm" /\ json.tree.type # "weight")
  THEN "Invalid mobile format: root must be an arm or weight"
  ELSE ""

importMobileFromJSON(h, json) == createMobileFromPreset(h, json.tree)

\* ------------------------------------- Mobile.jsx and PhysicsMobile.jsx
\* A coordinate is kept as the sum the code builds and is never evaluated: a
\* constant c plus the terms t, each d * fn(rot) * yawFn(yaw).  rot is a sum of
\* tilts, kept as the sequence of its summands from the root down.
Coordinate(c) == [c |-> c, t |-> <<>>]
Lowered(coord, by) == [coord EXCEPT !.c = @ - by]
Product(d, fn, rot) == [d |-> d, fn |-> fn, rot |-> rot, yawFn |-> "one", yaw |-> 0]
\* term * Math.cos(yaw) and term * Math.sin(yaw): Math.cos(0) is 1, Math.sin(0) is 0
TimesCos(term, yaw) ==
  IF yaw = 0 THEN term ELSE [term EXCEPT !.yawFn = "cos", !.yaw = yaw]
TimesSin(term, yaw) ==
  IF yaw = 0 THEN [term EXCEPT !.d = 0] ELSE [term EXCEPT !.yawFn = "sin", !.yaw = yaw]
Added(coord, term) == IF term.d = 0 THEN coord ELSE [coord EXCEPT !.t = Append(@, term)]
Subtracted(coord, term) == Added(coord, [term EXCEPT !.d = -@])
\* z || 0
OrZero(coord) == IF coord = Coordinate(0) THEN Coordinate(0) ELSE coord

\* node.wireLength ?? DEFAULT_WIRE_LENGTH
wireLengthOf(h, node) ==
  IF node # Null /\ "wireLength" \in DOMAIN h[node] THEN h[node].wireLength
  ELSE DEFAULT_WIRE_LENGTH

\* MobileNode of Mobile.jsx: where the analytical mode renders each node of the
\* subtree at `node`, by id; an arm is rendered at `position` with the rotation
\* parentRotation + tilt that Arm.jsx computes
RECURSIVE MobileNode(_, _, _, _, _, _)
MobileNode(h, node, position, parentRotation, yawAngles, rendered) ==
  IF node = Null THEN rendered
  ELSE IF h[node].type = "weight"
  THEN MapSet(rendered, h[node].id, [position |-> position])
  ELSE IF h[node].type = "arm"
  THEN LET tiltAngle == calculateTiltAngle(h, node)
           totalRotation == Append(parentRotation, tiltAngle)
           armYaw == IF h[node].id \in DOMAIN yawAngles THEN yawAngles[h[node].id] ELSE 0
           leftDistance == (h[node].pivotPosition * h[node].length) \div 1000
           rightDistance == ((1000 - h[node].pivotPosition) * h[node].length) \div 1000
           leftLocalX == Product(-leftDistance, "cos", totalRotation)
           leftLocalY == Product(-leftDistance, "sin", totalRotation)
           leftEndPos == [x |-> Added(position.x, TimesCos(leftLocalX, armYaw)),
                          y |-> Added(position.y, leftLocalY),
                          z |-> Subtracted(position.z, TimesSin(leftLocalX, armYaw))]
           rightLocalX == Product(rightDistance, "cos", totalRotation)
           rightLocalY == Product(rightDistance, "sin", totalRotation)
           rightEndPos == [x |-> Added(position.x, TimesCos(rightLocalX, armYaw)),
                           y |-> Added(position.y, rightLocalY),
                           z |-> Subtracted(position.z, TimesSin(rightLocalX, armYaw))]
           leftChildPos ==
             [leftEndPos EXCEPT !.y = Lowered(@, wireLengthOf(h, h[node].leftChild))]
           rightChildPos ==
             [rightEndPos EXCEPT !.y = Lowered(@, wireLengthOf(h, h[node].rightChild))]
           arm == MapSet(rendered, h[node].id,
                         [position |-> position, rotation |-> totalRotation])
           left == MobileNode(h, h[node].leftChild, leftChildPos, totalRotation,
                              yawAngles, arm)
       IN MobileNode(h, h[node].rightChild, rightChildPos, totalRotation, yawAngles, left)
  ELSE rendered

\* Mobile(): the tree rendered from the start position below the suspension point
startPosition == [x |-> Coordinate(0), y |-> Coordinate(4300), z |-> Coordinate(0)]
Mobile(h, m, yawAngles) == MobileNode(h, m, startPosition, <<>>, yawAngles, <<>>)

\* calculateWorldPositions of PhysicsMobile.jsx: the initial position of each
\* node's rigid body, by id
RECURSIVE traverse(_, _, _, _, _)
traverse(h, node, parentPos, parentRotation, positions) ==
  IF node = Null THEN positions
  ELSE LET wireLength == wireLengthOf(h, node)
       IN IF h[node].type = "arm"
          THEN LET tiltAngle == calculateTiltAngle(h, node)
                   totalRotation == Append(parentRotation, tiltAngle)
                   armPos == [x |-> parentPos.x,
                              y |-> Lowered(parentPos.y, wireLength),
                              z |-> OrZero(parentPos.z)]
                   leftDist == (h[node].pivotPosition * h[node].length) \div 1000
                   rightDist == ((1000 - h[node].pivotPosition) * h[node].length) \div 1000
                   leftEndPos ==
                     [x |-> Subtracted(armPos.x, Product(leftDist, "cos", totalRotation)),
                      y |-> Subtracted(armPos.y, Product(leftDist, "sin", totalRotation)),
                      z |-> armPos.z]
                   rightEndPos ==
                     [x |-> Added(armPos.x, Product(rightDist, "cos", totalRotation)),
                      y |-> Added(armPos.y, Product(rightDist, "sin", totalRotation)),
                      z |-> armPos.z]
                   arm == MapSet(positions, h[node].id,
                                 [position |-> armPos, rotation |-> totalRotation])
                   left == IF h[node].leftChild # Null
                           THEN traverse(h, h[node].leftChild, leftEndPos, totalRotation, arm)
                           ELSE arm
               IN IF h[node].rightChild # Null
                  THEN traverse(h, h[node].rightChild, rightEndPos, totalRotation, left)
                  ELSE left
          ELSE IF h[node].type = "weight"
          THEN MapSet(positions, h[node].id,
                      [position |-> [x |-> parentPos.x,
                                     y |-> Lowered(parentPos.y, wireLength),
                                     z |-> OrZero(parentPos.z)]])
          ELSE positions

calculateWorldPositions(h, node, startY) ==
  traverse(h, node, [x |-> Coordinate(0), y |-> Coordinate(startY), z |-> Coordinate(0)],
           <<>>, <<>>)

\* ------------------------------------------------------------- actions
\* The old tree is intact when every object of it still has the field values it
\* had, and the tree is replaced only by an object that did not exist before.
Intact(hOld, rootOld, hNew, rootNew) ==
  /\ \A a \in Reach(hOld, rootOld) : a \in DOMAIN hNew /\ hNew[a] = hOld[a]
  /\ rootNew = rootOld \/ rootNew \notin DOMAIN hOld

\* set({mobile: ...}): the store's tree reference is replaced; rs are the
\* closures pending afterwards
InstallTree(h, root, rs) ==
  LET order == LiveOrder(h, Roots(root, rs))
  IN /\ heap' = Collect(h, Roots(root, rs))
     /\ mobile' = NewAddr(order, root)
     /\ runs' = [i \in DOMAIN rs |-> [rs[i] EXCEPT !.mobile = NewAddr(order, rs[i].mobile)]]
     /\ intact' = (intact /\ Intact(heap, mobile, h, root)
                          /\ \A i \in DOMAIN runs : Intact(heap, runs[i].mobile, h, runs[i].mobile))

\* a store call made between two animation frames
UserCall ==
  /\ runs # <<>> => frameCalls < MaxCallsPerFrame
  /\ frameCalls' = IF runs # <<>> THEN frameCalls + 1 ELSE 0

Install(st) ==
  /\ InstallTree(st.heap, st.mobile, runs)
  /\ selectedId' = st.selectedId
  /\ armYawAngles' = st.armYawAngles
  /\ idCounter' = st.idCounter

ExpandWeight(weightId) ==
  LET st == expandWeight(CurrentState, weightId)
  IN /\ UserCall
     /\ Install(st)
     /\ lastOp' = [op |-> "expandWeight", applied |-> st.mobile # mobile]
     /\ UNCHANGED <<isAnimating, viewMode, presetTimer, importResult, calls, files, physics, forces,
                 orbitControlsEnabled, push, removed, resumeTimers>>

DeleteNode(nodeId) ==
  LET st == deleteNode(CurrentState, nodeId)
  IN /\ UserCall
     /\ Install(st)
     /\ lastOp' = [op |-> "deleteNode", applied |-> st.mobile # mobile]
     /\ UNCHANGED <<isAnimating, viewMode, presetTimer, importResult, files, physics, forces,
                 orbitControlsEnabled, push, removed, resumeTimers>>

WeightUpdates ==
  { [mass |-> 20000, size |-> 50, wireLength |-> 5000],
    [mass |-> 50, size |-> 2000, wireLength |-> 100] }

ArmUpdates ==
  { [pivotPosition |-> 950, length |-> 500, wireLength |-> 5000],
    [pivotPosition |-> 50, length |-> 12000, wireLength |-> 100] }

UpdateWeight(weightId, updates) ==
  LET st == updateWeight(CurrentState, weightId, updates)
  IN /\ UserCall
     /\ Install(st)
     /\ lastOp' = [op |-> "updateWeight", applied |-> st.mobile # mobile]
     /\ UNCHANGED <<isAnimating, viewMode, presetTimer, importResult, files, physics, forces,
                 orbitControlsEnabled, push, removed, resumeTimers>>

UpdateArm(armId, updates) ==
  LET st == updateArm(CurrentState, armId, updates)
  IN /\ UserCall
     /\ Install(st)
     /\ lastOp' = [op |-> "updateArm", applied |-> st.mobile # mobile]
     /\ UNCHANGED <<isAnimating, viewMode, presetTimer, importResult, files, physics, forces,
                 orbitControlsEnabled, push, removed, resumeTimers>>

SetSelected(id) ==
  /\ UserCall
  /\ selectedId' = id
  /\ lastOp' = [op |-> "setSelected", applied |-> FALSE]
  /\ UNCHANGED <<heap, mobile, isAnimating, viewMode, armYawAngles, idCounter, runs,
                 presetTimer, importResult, intact, files, physics, forces,
                 orbitControlsEnabled, push, removed, resumeTimers>>

ToggleViewMode ==
  LET newMode == IF viewMode = "flat" THEN "3d" ELSE "flat"
  IN /\ UserCall
     /\ viewMode' = newMode
     /\ armYawAngles' = IF newMode = "3d" THEN generateYawAngles(heap, mobile) ELSE <<>>
     /\ lastOp' = [op |-> "toggleViewMode", applied |-> FALSE]
     /\ UNCHANGED <<heap, mobile, selectedId, isAnimating, idCounter, runs,
                    presetTimer, importResult, intact, files, physics, forces,
                 orbitControlsEnabled, push, removed, resumeTimers>>

\* autoBalance(): computes the targets on a clone, captures `state`, sets
\* isAnimating and schedules the first animate()
autoBalance(h, m) ==
  LET c == cloneTree(h, m)
  IN [mobile |-> m,
      targetPivots |-> calculateOptimalPivots(c.heap, c.root, <<>>),
      initialPivots |-> storeInitialPivots(h, m, <<>>),
      elapsed |-> 0]

StartAutoBalance ==
  /\ calls.autoBalance < MaxRuns
  /\ isAnimating' = TRUE
  /\ runs' = Append(runs, autoBalance(heap, mobile))
  /\ calls' = [calls EXCEPT !.autoBalance = @ + 1]
  /\ UNCHANGED <<heap, mobile, selectedId, viewMode, armYawAngles, idCounter,
                 importResult, intact, files, physics, forces,
                 orbitControlsEnabled, push, removed, resumeTimers>>

AutoBalance ==
  /\ UserCall
  /\ StartAutoBalance
  /\ lastOp' = [op |-> "autoBalance", applied |-> FALSE]
  /\ UNCHANGED presetTimer

\* The requestAnimationFrame callbacks of one frame, oldest closure first:
\* each installs its animated tree and reschedules itself while progress < 1.
\* fr = [heap, mobile, runs (those rescheduled), finished, intact]
RECURSIVE runCallbacks(_, _)
runCallbacks(fr, pending) ==
  IF pending = <<>> THEN fr
  ELSE
    LET run == [Head(pending) EXCEPT !.elapsed = Min(duration, @ + FrameMs)]
        a == animate(fr.heap, run)
        done == ~(progressOf(run.elapsed) < 1000)
    IN runCallbacks(
         [heap |-> a.heap, mobile |-> a.root,
          runs |-> IF done THEN fr.runs ELSE Append(fr.runs, run),
          finished |-> fr.finished \/ done,
          intact |-> fr.intact /\ Intact(fr.heap, fr.mobile, a.heap, a.root)
                               /\ \A i \in DOMAIN runs :
                                    Intact(heap, runs[i].mobile, a.heap, runs[i].mobile)],
         Tail(pending))

\* one animation frame: FrameMs after the previous one, every pending
\* animate() runs
AnimationFrame ==
  LET fr == runCallbacks([heap |-> heap, mobile |-> mobile, runs |-> <<>>,
                          finished |-> FALSE, intact |-> TRUE], runs)
      order == LiveOrder(fr.heap, Roots(fr.mobile, fr.runs))
  IN /\ runs # <<>>
     /\ heap' = Collect(fr.heap, Roots(fr.mobile, fr.runs))
     /\ mobile' = NewAddr(order, fr.mobile)
     /\ runs' = [i \in DOMAIN fr.runs |->
                   [fr.runs[i] EXCEPT !.mobile = NewAddr(order, fr.runs[i].mobile)]]
     /\ intact' = (intact /\ fr.intact)
     /\ isAnimating' = IF fr.finished THEN FALSE ELSE isAnimating
     /\ frameCalls' = 0
     /\ lastOp' = [op |-> "animate", applied |-> TRUE]
     /\ UNCHANGED <<selectedId, viewMode, armYawAngles, idCounter,
                    presetTimer, importResult, calls, files, physics, forces,
                 orbitControlsEnabled, push, removed, resumeTimers>>

ResetMobile ==
  LET m == createInitialMobile(heap)
  IN /\ UserCall
     /\ InstallTree(m.heap, m.root, runs)
     /\ selectedId' = Null
     /\ isAnimating' = FALSE
     /\ viewMode' = "flat"
     /\ armYawAngles' = <<>>
     /\ idCounter' = m.idCounter
     /\ lastOp' = [op |-> "resetMobile", applied |-> TRUE]
     /\ physics' = [physics EXCEPT !.physicsEnabled = FALSE, !.isPaused = FALSE,
                                    !.windIntensity = 0, !.windMode = "uniform",
                                    !.physicsRefs = <<>>, !.timeScale = 1000,
                                    !.collisionsDetected = <<>>]
     /\ UNCHANGED <<presetTimer, importResult, files, forces,
                 orbitControlsEnabled, push, removed, resumeTimers>>

PresetIds == {"cascade", "missing"}

LoadPreset(presetId) ==
  LET preset == getPresetById(presetId)
      m == createMobileFromPreset(heap, preset.tree)
  IN /\ UserCall
     /\ lastOp' = [op |-> "loadPreset", applied |-> preset # JsonNull]
     /\ IF preset = JsonNull
        THEN UNCHANGED <<heap, mobile, runs, intact, selectedId, isAnimating,
                         armYawAngles, idCounter, presetTimer>>
        ELSE /\ InstallTree(m.heap, m.root, runs)
             /\ selectedId' = Null
             /\ isAnimating' = FALSE
             /\ armYawAngles' = IF viewMode = "3d" THEN generateYawAngles(m.heap, m.root)
                                ELSE <<>>
             /\ idCounter' = m.idCounter
             /\ presetTimer' = presetTimer + 1
     /\ UNCHANGED <<viewMode, importResult, files, physics, forces,
                 orbitControlsEnabled, push, removed, resumeTimers>>

\* the setTimeout(..., 100) of loadPreset fires
PresetTimer ==
  /\ presetTimer > 0
  /\ presetTimer' = presetTimer - 1
  /\ StartAutoBalance
  /\ lastOp' = [op |-> "autoBalance", applied |-> FALSE]
  /\ UNCHANGED frameCalls

JsonInputs ==
  { JsonNull,
    [version |-> "1.0"],
    [version |-> "1.0", tree |-> [type |-> "beam"]],
    [version |-> "1.0", tree |-> JsonWeight(3000, "#ef4444")],
    [version |-> "1.0",
     tree |-> JsonArm(3000, 300, JsonWeight(1000, "#ef4444"), JsonWeight(2000, "#3b82f6"))] }

ImportMobileJSON(json) ==
  LET error == importError(json)
      m == importMobileFromJSON(heap, json)
  IN /\ UserCall
     /\ lastOp' = [op |-> "importMobileJSON", applied |-> error = ""]
     /\ IF error # ""
        THEN /\ importResult' = [success |-> FALSE, error |-> error]
             /\ UNCHANGED <<heap, mobile, runs, intact, selectedId, isAnimating,
                            armYawAngles, idCounter>>
        ELSE /\ InstallTree(m.heap, m.root, runs)
             /\ selectedId' = Null
             /\ isAnimating' = FALSE
             /\ armYawAngles' = IF viewMode = "3d" THEN generateYawAngles(m.heap, m.root)
                                ELSE <<>>
             /\ idCounter' = m.idCounter
             /\ importResult' = [success |-> TRUE]
     /\ UNCHANGED <<viewMode, presetTimer, files, physics, forces,
                 orbitControlsEnabled, push, removed, resumeTimers>>

\* exportMobileJSON: the file is downloaded; JSON.stringify writes the value
\* and JSON.parse of the file gives it back
ExportMobileJSON ==
  /\ UserCall
  /\ files' = files \cup {exportMobileToJSON(heap, mobile)}
  /\ lastOp' = [op |-> "exportMobileJSON", applied |-> FALSE]
  /\ UNCHANGED <<heap, mobile, selectedId, isAnimating, viewMode, armYawAngles, idCounter,
                 runs, presetTimer, importResult, calls, intact, physics, forces,
                 orbitControlsEnabled, push, removed, resumeTimers>>

\* ---- the physics fields of the store
SetPhysics(op, p) ==
  /\ UserCall
  /\ physics' = p
  /\ lastOp' = [op |-> op, applied |-> FALSE]
  /\ UNCHANGED <<heap, mobile, selectedId, isAnimating, viewMode, armYawAngles, idCounter,
                 runs, presetTimer, importResult, calls, intact, files, forces,
                 orbitControlsEnabled, push, removed, resumeTimers>>

TogglePhysics ==
  SetPhysics("togglePhysics",
             [physics EXCEPT !.physicsEnabled = ~@, !.isPaused = FALSE])

SetPhysicsEnabled(enabled) ==
  SetPhysics("setPhysicsEnabled",
             [physics EXCEPT !.physicsEnabled = enabled, !.isPaused = FALSE])

TogglePause == SetPhysics("togglePause", [physics EXCEPT !.isPaused = ~@])

SetPaused(paused) == SetPhysics("setPaused", [physics EXCEPT !.isPaused = paused])

SetWindIntensity(intensity) ==
  SetPhysics("setWindIntensity",
             [physics EXCEPT !.windIntensity = Max(0, Min(1000, intensity))])

SetWindMode(mode) == SetPhysics("setWindMode", [physics EXCEPT !.windMode = mode])

\* Math.sqrt, on the squares
Sqrt(n) == CHOOSE r \in 0..n : r * r <= n /\ n < (r + 1) * (r + 1)

\* the direction is normalized; a vector of length 0 is ignored
SetWindDirection(direction) ==
  LET len == Sqrt(direction[1] * direction[1] + direction[2] * direction[2]
                  + direction[3] * direction[3])
  IN SetPhysics("setWindDirection",
                IF len > 0
                THEN [physics EXCEPT !.windDirection =
                        <<(direction[1] * 1000) \div len, (direction[2] * 1000) \div len,
                          (direction[3] * 1000) \div len>>]
                ELSE physics)

\* physicsRefs is the sequence of its entries [nodeId, ref] in the order of
\* Object.entries: a new key comes last, a key set again keeps its place.  A
\* ref is the object [current |-> body], Null while no body is mounted
setEntry(entries, nodeId, ref) ==
  IF \E i \in DOMAIN entries : entries[i].nodeId = nodeId
  THEN [i \in DOMAIN entries |->
          IF entries[i].nodeId = nodeId THEN [nodeId |-> nodeId, ref |-> ref] ELSE entries[i]]
  ELSE Append(entries, [nodeId |-> nodeId, ref |-> ref])

RegisterPhysicsRef(nodeId, ref) ==
  SetPhysics("registerPhysicsRef",
             [physics EXCEPT !.physicsRefs = setEntry(@, nodeId, ref)])

UnregisterPhysicsRef(nodeId) ==
  SetPhysics("unregisterPhysicsRef",
             [physics EXCEPT !.physicsRefs = SelectSeq(@, LAMBDA e : e.nodeId # nodeId)])

\* ---- WindSystem.jsx
\* the values noise3D takes, a sum of products of sines and cosines
Turbulences == {-1000, 1000}

\* the force handed to body.applyForce, for a value of the noise at the body:
\* uniform: the direction times baseForce * windIntensity; turbulent: the
\* direction turned by angleOffset (in thousandths of pi) about the y axis,
\* times a magnitude that follows the noise, kept as those factors
windForce(p, turbulence) ==
  IF p.windMode = "uniform"
  THEN LET forceMagnitude == baseForce * p.windIntensity
       IN [x |-> (p.windDirection[1] * forceMagnitude) \div 1000,
           y |-> (p.windDirection[2] * forceMagnitude) \div 1000,
           z |-> (p.windDirection[3] * forceMagnitude) \div 1000]
  ELSE LET forceMagnitude ==
             (baseForce * p.windIntensity * (500 + turbulence \div 2)) \div 1000
       IN [forceMagnitude |-> forceMagnitude,
           angleOffset |-> (turbulence * 300) \div 1000,
           windDirection |-> p.windDirection]

\* the frame callback of WindSystem returns before it reaches any body
windIsOff_IgnoresPause(p) == p.windIntensity = 0
windIsOff(p) == p.isPaused \/ p.windIntensity = 0

\* the entries the callback reaches: the refs that hold a body
windEntries(p) == SelectSeq(p.physicsRefs, LAMBDA e : e.ref.current # Null)
windBodies(p) == {windEntries(p)[i].nodeId : i \in DOMAIN windEntries(p)}

\* a call on a body that the engine has removed throws
Rejects(body) == body \in removed

\* forEach without a try: the entries served before a body throws
served(entries) ==
  LET bad == {i \in DOMAIN entries : Rejects(entries[i].ref.current)}
  IN IF bad = {} THEN entries
     ELSE SubSeq(entries, 1, (CHOOSE i \in bad : \A j \in bad : i <= j) - 1)

\* one rendered frame: Scene.jsx mounts WindSystem while physics is enabled, and
\* its frame callback applies a force to every registered body; a body that
\* throws ends the callback
WindFrame ==
  LET off == ~physics.physicsEnabled \/ windIsOff(physics)
      entries == IF off THEN <<>> ELSE windEntries(physics)
      done == served(entries)
  IN /\ \E noise \in [windBodies(physics) -> Turbulences] :
          forces' = [id \in {done[i].nodeId : i \in DOMAIN done} |->
                       windForce(physics, noise[id])]
     /\ lastOp' = [op |-> "WindSystem.useFrame", applied |-> FALSE,
                   thrown |-> Len(done) < Len(entries)]
     /\ UNCHANGED <<heap, mobile, selectedId, isAnimating, viewMode, armYawAngles, idCounter,
                    runs, presetTimer, importResult, calls, frameCalls, intact, files,
                    physics, orbitControlsEnabled, push, removed, resumeTimers>>

\* ---- PushInteraction.jsx
\* findPhysicsBody for the meshes a ray hits, nearest first: the body of the
\* first one that has a registered ref holding a body
RECURSIVE findPhysicsBody(_, _)
findPhysicsBody(p, hits) ==
  IF hits = <<>> THEN Null
  ELSE LET es == SelectSeq(p.physicsRefs, LAMBDA e : e.nodeId = Head(hits))
       IN IF es # <<>> /\ es[1].ref.current # Null THEN es[1].ref.current
          ELSE findPhysicsBody(p, Tail(hits))

\* what a handler or frame callback of the scene leaves: the calls the bodies
\* accepted, and whether an exception left the callback
Handled(op, dragging, accepted, thrown) ==
  /\ lastOp' = [op |-> op, applied |-> FALSE, dragging |-> dragging, calls |-> accepted,
                thrown |-> thrown]
  /\ UNCHANGED <<heap, mobile, selectedId, isAnimating, viewMode, armYawAngles, idCounter,
                 runs, presetTimer, importResult, calls, frameCalls, intact, files,
                 physics, forces, removed, resumeTimers>>

\* try { body[call](value, true) } catch (e) { }
tryCall(call, body, value) ==
  IF Rejects(body) THEN [accepted |-> <<>>, thrown |-> FALSE]
  ELSE [accepted |-> <<[call |-> call, body |-> body, value |-> value]>>, thrown |-> FALSE]

PointerDown(pos, hits) ==
  LET body == findPhysicsBody(physics, hits)
  IN /\ Handled("handlePointerDown", FALSE, <<>>, FALSE)
     /\ IF ~physics.physicsEnabled \/ physics.isPaused
        THEN UNCHANGED <<push, orbitControlsEnabled>>
        ELSE IF body = Null
        THEN /\ push' = [push EXCEPT !.lastMousePos = pos, !.currentMousePos = pos,
                                     !.downMousePos = pos]
             /\ UNCHANGED orbitControlsEnabled
        ELSE /\ push' = [push EXCEPT !.lastMousePos = pos, !.currentMousePos = pos,
                                     !.isDragging = TRUE, !.draggedBody = body,
                                     !.previousOrbitState = orbitControlsEnabled,
                                     !.downMousePos = pos]
             /\ orbitControlsEnabled' = FALSE

PointerMove(pos) ==
  /\ Handled("handlePointerMove", FALSE, <<>>, FALSE)
  /\ push' = IF ~push.isDragging \/ push.draggedBody = Null THEN push
             ELSE [push EXCEPT !.currentMousePos = pos]
  /\ UNCHANGED orbitControlsEnabled

\* the impulse of a release and the force of a frame, for a drag delta
releaseImpulse(deltaX, deltaY) ==
  [x |-> (deltaX * IMPULSE_MULTIPLIER * 50) \div 1000,
   y |-> (deltaY * IMPULSE_MULTIPLIER * 30) \div 1000,
   z |-> (((deltaX * 300) \div 1000) * IMPULSE_MULTIPLIER * 30) \div 1000]
dragForce(deltaX, deltaY) ==
  [x |-> (deltaX * IMPULSE_MULTIPLIER * 8) \div 1000,
   y |-> (deltaY * IMPULSE_MULTIPLIER * 5) \div 1000,
   z |-> (deltaX * IMPULSE_MULTIPLIER * 4) \div 1000]

\* pointerup and pointerleave
PointerUp ==
  LET dragging == push.isDragging /\ push.draggedBody # Null
      deltaX == push.currentMousePos[1] - push.lastMousePos[1]
      deltaY == push.currentMousePos[2] - push.lastMousePos[2]
      try == IF dragging
             THEN tryCall("applyImpulse", push.draggedBody, releaseImpulse(deltaX, deltaY))
             ELSE [accepted |-> <<>>, thrown |-> FALSE]
  IN /\ Handled("handlePointerUp", dragging, try.accepted, try.thrown)
     /\ push' = IF try.thrown THEN push
                ELSE [push EXCEPT !.isDragging = FALSE, !.draggedBody = Null]
     /\ orbitControlsEnabled' = IF try.thrown THEN orbitControlsEnabled
                                ELSE push.previousOrbitState

\* Vector2.lerp(v, alpha), alpha in thousandths
lerp(from, to, alpha) ==
  <<from[1] + ((to[1] - from[1]) * alpha) \div 1000,
    from[2] + ((to[2] - from[2]) * alpha) \div 1000>>

\* the frame callback of PushInteraction: a force while the pointer is away
\* from the reference point, which then moves a tenth of the way to the pointer
PushFrame ==
  LET dragging == push.isDragging /\ push.draggedBody # Null
      deltaX == push.currentMousePos[1] - push.lastMousePos[1]
      deltaY == push.currentMousePos[2] - push.lastMousePos[2]
      away == dragging /\ (Abs(deltaX) > 1 \/ Abs(deltaY) > 1)
      try == IF away
             THEN tryCall("applyForce", push.draggedBody, dragForce(deltaX, deltaY))
             ELSE [accepted |-> <<>>, thrown |-> FALSE]
  IN /\ Handled("PushInteraction.useFrame", dragging, try.accepted, try.thrown)
     /\ push' = IF away /\ ~try.thrown
                THEN [push EXCEPT !.lastMousePos = lerp(@, push.currentMousePos, 100)]
                ELSE push
     /\ UNCHANGED orbitControlsEnabled

\* the callbacks of useApplyImpulse and useApplyForce
ApplyImpulse(nodeId, impulse) ==
  LET body == findPhysicsBody(physics, <<nodeId>>)
      try == IF body # Null THEN tryCall("applyImpulse", body, impulse)
             ELSE [accepted |-> <<>>, thrown |-> FALSE]
  IN /\ Handled("useApplyImpulse", FALSE, try.accepted, try.thrown)
     /\ UNCHANGED <<push, orbitControlsEnabled>>

ApplyForce(nodeId, force) ==
  LET body == findPhysicsBody(physics, <<nodeId>>)
      try == IF body # Null THEN tryCall("applyForce", body, force)
             ELSE [accepted |-> <<>>, thrown |-> FALSE]
  IN /\ Handled("useApplyForce", FALSE, try.accepted, try.thrown)
     /\ UNCHANGED <<push, orbitControlsEnabled>>

\* the engine removes a body that refs still hold
RemoveBody(body) ==
  /\ body \notin removed
  /\ removed' = removed \cup {body}
  /\ UNCHANGED <<heap, mobile, selectedId, isAnimating, viewMode, armYawAngles, idCounter,
                 runs, presetTimer, importResult, calls, frameCalls, lastOp, intact, files,
                 physics, forces, orbitControlsEnabled, push, resumeTimers>>

\* the physics fields of the store as it is created; a vector is <<x, y, z>>
InitialPhysics ==
  [physicsEnabled |-> FALSE, isPaused |-> FALSE, windIntensity |-> 0,
   windMode |-> "uniform", windDirection |-> <<1000, 0, 300>>, physicsRefs |-> <<>>,
   timeScale |-> 1000, collisionsDetected |-> <<>>]

\* the refs of PushInteraction as it is mounted; a mouse position is <<x, y>> in
\* normalized device coordinates.  downMousePos is not kept by the code: it is
\* the position of the last pointer-down the handler recorded
InitialPush ==
  [isDragging |-> FALSE, draggedBody |-> Null, lastMousePos |-> <<0, 0>>,
   currentMousePos |-> <<0, 0>>, previousOrbitState |-> TRUE, downMousePos |-> <<0, 0>>]

Init ==
  LET m == createInitialMobile(<<>>)
  IN /\ heap = m.heap
     /\ mobile = m.root
     /\ selectedId = Null
     /\ isAnimating = FALSE
     /\ viewMode = "flat"
     /\ armYawAngles = <<>>
     /\ idCounter = m.idCounter
     /\ runs = <<>>
     /\ presetTimer = 0
     /\ importResult = [success |-> TRUE]
     /\ calls = [edit |-> 0, update |-> 0, load |-> 0, autoBalance |-> 0]
     /\ frameCalls = 0
     /\ lastOp = [op |-> "init", applied |-> FALSE]
     /\ intact = TRUE
     /\ files = {}
     /\ physics = InitialPhysics
     /\ forces = <<>>
     /\ orbitControlsEnabled = TRUE
     /\ push = InitialPush
     /\ removed = {}
     /\ resumeTimers = 0

\* the call budgets of a bounded session
Edit(A) == calls.edit < MaxEdits /\ A /\ calls' = [calls EXCEPT !.edit = @ + 1]
Update(A) == calls.update < MaxUpdates /\ A /\ calls' = [calls EXCEPT !.update = @ + 1]
Load(A) == calls.load < MaxLoads /\ A /\ calls' = [calls EXCEPT !.load = @ + 1]

\* the calls that generate ids, while the counter and the tree stay in bounds
Bounded(A, maxNodes) ==
  A /\ idCounter' <= MaxId /\ countNodes(heap', mobile') <= maxNodes

\* the ids an editing session passes to updateWeight and updateArm: the root
\* arm's, the first weight's (while it is in the tree) and an unknown one
UpdateArgs == {1, 2, UnknownId}

\* an editing session: every tree operation, the animation and reset
Next ==
  \/ \E id \in IdArgs : Bounded(ExpandWeight(id), MaxNodes)
  \/ \E id \in IdArgs : Edit(Bounded(DeleteNode(id), MaxNodes))
  \/ \E id \in UpdateArgs, u \in WeightUpdates : Edit(UpdateWeight(id, u))
  \/ \E id \in UpdateArgs, u \in ArmUpdates : Edit(UpdateArm(id, u))
  \/ Edit(ResetMobile)
  \/ Edit(SetSelected(heap[mobile].id))
  \/ Edit(ToggleViewMode)
  \/ AutoBalance
  \/ AnimationFrame

Spec == Init /\ [][Next]_vars

\* what the sliders and the pivot handle pass: one field, below, in or above
\* its range
GeomWeightUpdates ==
  {[mass |-> v] : v \in {50, 2000, 20000}}
  \cup {[size |-> v] : v \in {50, 500, 2000}}
  \cup {[wireLength |-> v] : v \in {100, 1500, 5000}}
  \cup {[thickness |-> v] : v \in {10, 300}}

GeomArmUpdates ==
  {[pivotPosition |-> v] : v \in {50, 300, 950}}
  \cup {[length |-> v] : v \in {500, 6000, 12000}}
  \cup {[wireLength |-> v] : v \in {100, 1500, 5000}}

\* a session of geometry updates and auto-balance on the initial tree
NextGeom ==
  \/ \E id \in IdArgs, u \in GeomWeightUpdates \cup WeightUpdates :
       Update(UpdateWeight(id, u))
  \/ \E id \in IdArgs, u \in GeomArmUpdates \cup ArmUpdates :
       Update(UpdateArm(id, u))
  \/ AutoBalance
  \/ AnimationFrame

SpecGeom == Init /\ [][NextGeom]_vars

\* a session that also replaces the tree by a preset or an imported file
NextIO ==
  \/ \E id \in IdArgs : Bounded(ExpandWeight(id), MaxLoadedNodes)
  \/ \E id \in IdArgs : Edit(Bounded(DeleteNode(id), MaxLoadedNodes))
  \/ Load(ResetMobile)
  \/ \E presetId \in PresetIds : Load(LoadPreset(presetId))
  \/ PresetTimer
  \/ \E json \in JsonInputs : Load(ImportMobileJSON(json))
  \/ AutoBalance
  \/ AnimationFrame

SpecIO == Init /\ [][NextIO]_vars

\* the masses, lengths and pivots a session sets before it balances the tree
BalanceWeightUpdates == {[mass |-> v] : v \in {50, 2000, 20000}}
BalanceArmUpdates == {[pivotPosition |-> 950], [length |-> 6000], [length |-> 500]}

Export(A) == Cardinality(files) < MaxExports /\ A

\* a session that exports the tree, goes on editing and imports files: those
\* it exported and others
NextFile ==
  \/ \E id \in Ids(heap, mobile) : Bounded(ExpandWeight(id), MaxBalancedNodes)
  \/ \E id \in Ids(heap, mobile) \ {heap[mobile].id} :
       Edit(Bounded(DeleteNode(id), MaxBalancedNodes))
  \/ Export(ExportMobileJSON)
  \/ \E json \in JsonInputs \cup files : Load(ImportMobileJSON(json))
  \/ AutoBalance
  \/ AnimationFrame

SpecFile == Init /\ [][NextFile]_vars

\* a call made while no animate() closure is pending
Quiet(A) == runs = <<>> /\ A

\* a session that shapes the tree and then runs autoBalance with nothing else
\* called until the animation is over
NextBalance ==
  \/ \E id \in IdArgs : Quiet(Bounded(ExpandWeight(id), MaxBalancedNodes))
  \/ \E id \in IdArgs, u \in BalanceWeightUpdates : Quiet(Update(UpdateWeight(id, u)))
  \/ \E id \in IdArgs, u \in BalanceArmUpdates : Quiet(Update(UpdateArm(id, u)))
  \/ Quiet(AutoBalance)
  \/ AnimationFrame

\* requestAnimationFrame runs every callback it was given: weak fairness of
\* AnimationFrame, WF_vars(AnimationFrame), with ENABLED <<AnimationFrame>>_vars
\* written out as the state predicate it is, runs # <<>>
FrameFairness == []<>(runs = <<>>) \/ []<><<AnimationFrame>>_vars

SpecBalance == Init /\ [][NextBalance]_vars /\ FrameFairness

\* ---------------------------------------------- the solver's functions
\* The pivot at which the torques of an arm cancel,
\* (rightMass + armMass/2) / (leftMass + rightMass + armMass), as the number the
\* representation keeps for that quotient
BalancedPivot(h, a) ==
  LET leftMass == calculateSubtreeMass(h, h[a].leftChild)
      rightMass == calculateSubtreeMass(h, h[a].rightChild)
      armMass == ARM_BASE_MASS + (h[a].length * ARM_MASS_PER_LENGTH) \div 1000
  IN ((rightMass + armMass \div 2) * 1000) \div (leftMass + rightMass + armMass)

\* lerp(a, b, t) of balanceSolver.js, a + (b - a) * t, kept as its operands
colorLerp(a, b, t) == [from |-> a, to |-> b, t |-> t]

\* green above 0.9, green to yellow above 0.5, yellow to red below; the
\* channels are thousandths
getBalanceColor(balanceRatio) ==
  IF ~Leq(balanceRatio, Frac(9, 10))
  THEN [r |-> colorLerp(133, 133, Frac(0, 1)), g |-> colorLerp(773, 773, Frac(0, 1)),
        b |-> colorLerp(369, 369, Frac(0, 1))]
  ELSE IF ~Leq(balanceRatio, Frac(1, 2))
  THEN LET t == Frac(5 * (2 * balanceRatio.num - balanceRatio.den), 4 * balanceRatio.den)
       IN [r |-> colorLerp(918, 133, t), g |-> colorLerp(702, 773, t),
           b |-> colorLerp(31, 369, t)]
  ELSE LET t == Frac(2 * balanceRatio.num, balanceRatio.den)
       IN [r |-> colorLerp(937, 918, t), g |-> colorLerp(267, 702, t),
           b |-> colorLerp(267, 31, t)]

\* solveMobile: the computed states of the subtree at `node`, the node itself
\* first, then its left subtree, then its right subtree; an angle is the list
\* of the tilts it is the sum of
RECURSIVE solveMobile(_, _, _, _)
solveMobile(h, node, parentAngle, parentPosition) ==
  IF node = Null THEN <<>>
  ELSE IF h[node].type = "weight"
  THEN << [id |-> h[node].id, type |-> "weight", position |-> parentPosition,
           rotation |-> <<>>] >>
  ELSE IF h[node].type = "arm"
  THEN LET tiltAngle == calculateTiltAngle(h, node)
           totalAngle == Append(parentAngle, tiltAngle)
           balanceRatio == calculateBalanceRatio(h, node)
           balanceColor == getBalanceColor(balanceRatio)
           leftDistance == (h[node].pivotPosition * h[node].length) \div 1000
           rightDistance == ((1000 - h[node].pivotPosition) * h[node].length) \div 1000
           leftEndPos ==
             [x |-> Subtracted(parentPosition.x, Product(leftDistance, "cos", totalAngle)),
              y |-> Subtracted(parentPosition.y, Product(leftDistance, "sin", totalAngle))]
           rightEndPos ==
             [x |-> Added(parentPosition.x, Product(rightDistance, "cos", totalAngle)),
              y |-> Added(parentPosition.y, Product(rightDistance, "sin", totalAngle))]
           leftChildPos ==
             [leftEndPos EXCEPT !.y = Lowered(@, wireLengthOf(h, h[node].leftChild))]
           rightChildPos ==
             [rightEndPos EXCEPT !.y = Lowered(@, wireLengthOf(h, h[node].rightChild))]
       IN << [id |-> h[node].id, type |-> "arm", position |-> parentPosition,
              rotation |-> totalAngle, tiltAngle |-> tiltAngle,
              balanceRatio |-> balanceRatio, balanceColor |-> balanceColor,
              leftEnd |-> leftEndPos, rightEnd |-> rightEndPos,
              length |-> h[node].length, pivotPosition |-> h[node].pivotPosition] >>
          \o solveMobile(h, h[node].leftChild, totalAngle, leftChildPos)
          \o solveMobile(h, h[node].rightChild, totalAngle, rightChildPos)
  ELSE <<>>

\* the arms handed to the solver: every length, pivot and pair of children of
SolverLengths == {0, 1000, 4000}
SolverPivots == {100, 500, 900}
SolverChildren ==
  { JsonNull,
    JsonWeight(100, "#ef4444"), JsonWeight(1000, "#ef4444"), JsonWeight(2000, "#ef4444"),
    JsonArm(2000, 300, JsonWeight(1000, "#3b82f6"), JsonWeight(2000, "#3b82f6")) }
SolverTrees ==
  { JsonArm(len, piv, l, r) :
      len \in SolverLengths, piv \in SolverPivots, l \in SolverChildren, r \in SolverChildren }

\* a tree as the renderer holds it; balanced: the root's pivot is set to the
\* pivot at which its torques cancel
SolverInit ==
  \E tree \in SolverTrees, balanced \in BOOLEAN :
    LET m == createMobileFromPreset(<<>>, tree)
        order == LiveOrder(m.heap, <<m.root>>)
        h == Collect(m.heap, <<m.root>>)
        root == NewAddr(order, m.root)
    IN /\ heap = IF balanced THEN [h EXCEPT ![root].pivotPosition = BalancedPivot(h, root)]
                  ELSE h
       /\ mobile = root
       /\ selectedId = Null
       /\ isAnimating = FALSE
       /\ viewMode = "flat"
       /\ armYawAngles = <<>>
       /\ idCounter = m.idCounter
       /\ runs = <<>>
       /\ presetTimer = 0
       /\ importResult = [success |-> TRUE]
       /\ calls = [edit |-> 0, update |-> 0, load |-> 0, autoBalance |-> 0]
       /\ frameCalls = 0
       /\ lastOp = [op |-> "init", applied |-> FALSE]
       /\ intact = TRUE
       /\ files = {}
       /\ physics = InitialPhysics
       /\ forces = <<>>
       /\ orbitControlsEnabled = TRUE
       /\ push = InitialPush
       /\ removed = {}
       /\ resumeTimers = 0

\* a call of a pure function on the object at address a (Null: no object);
\* lastOp keeps the argument and the value returned
Returns(op, a, value) ==
  /\ lastOp' = [op |-> op, applied |-> FALSE, node |-> a, result |-> value]
  /\ UNCHANGED <<heap, mobile, selectedId, isAnimating, viewMode, armYawAngles, idCounter,
                 runs, presetTimer, importResult, calls, frameCalls, intact, files, physics, forces,
                 orbitControlsEnabled, push, removed, resumeTimers>>

CalculateTiltAngle(a) == Returns("calculateTiltAngle", a, calculateTiltAngle(heap, a))
CalculateBalanceRatio(a) == Returns("calculateBalanceRatio", a, calculateBalanceRatio(heap, a))
CalculateSubtreeMass(a) == Returns("calculateSubtreeMass", a, calculateSubtreeMass(heap, a))

\* a call solveMobile(node) with the default parentAngle and parentPosition;
\* lastOp keeps the argument, the array returned and whether the call repeats
\* the call before it
Solved(a, results) ==
  /\ lastOp' = [op |-> "solveMobile", applied |-> FALSE, node |-> a, result |-> results,
                again |-> lastOp.op = "solveMobile" /\ lastOp.node = a]
  /\ UNCHANGED <<heap, mobile, selectedId, isAnimating, viewMode, armYawAngles, idCounter,
                 runs, presetTimer, importResult, calls, frameCalls, intact, files, physics, forces,
                 orbitControlsEnabled, push, removed, resumeTimers>>

\* the results array kept between the calls
SolveMobile_Accumulates(a) ==
  Solved(a, (IF lastOp.op = "solveMobile" THEN lastOp.result ELSE <<>>)
            \o solveMobile(heap, a, <<>>, [x |-> Coordinate(0), y |-> Coordinate(0)]))

SolveMobile(a) ==
  Solved(a, solveMobile(heap, a, <<>>, [x |-> Coordinate(0), y |-> Coordinate(0)]))

\* the targetPivots map autoBalance fills for the tree at address a
CalculateOptimalPivots(a) ==
  Returns("calculateOptimalPivots", a, calculateOptimalPivots(heap, a, <<>>))

NextSolver ==
  \/ \E a \in Reach(heap, mobile) \cup {Null} : CalculateTiltAngle(a)
  \/ \E a \in Reach(heap, mobile) \cup {Null} : CalculateBalanceRatio(a)
  \/ \E a \in Reach(heap, mobile) \cup {Null} : CalculateSubtreeMass(a)
  \/ \E a \in Reach(heap, mobile) \cup {Null} : SolveMobile(a)
  \/ \E a \in Reach(heap, mobile) \cup {Null} : CalculateOptimalPivots(a)

SpecSolver == SolverInit /\ [][NextSolver]_vars

\* ------------------------------------------------ the two renderings
\* the tree as Mobile.jsx renders it and as PhysicsMobile.jsx places its bodies
RenderMobile == Returns("Mobile", mobile, Mobile(heap, mobile, armYawAngles))
RenderPhysicsMobile ==
  Returns("PhysicsMobile", mobile, calculateWorldPositions(heap, mobile, suspensionY))

\* a session of geometry updates in the flat view, rendered in either mode
NextRest ==
  \/ \E id \in IdArgs, u \in GeomWeightUpdates : Update(UpdateWeight(id, u))
  \/ \E id \in IdArgs, u \in GeomArmUpdates : Update(UpdateArm(id, u))
  \/ RenderMobile
  \/ RenderPhysicsMobile

SpecRest == Init /\ [][NextRest]_vars

\* ------------------------------------------------------ the wind
\* what the wind panel and the mounted bodies pass
WindIntensities == {-500, 500}
WindModes == {"uniform", "turbulent"}
WindDirections == {<<3, 0, 4>>, <<0, 0, 0>>}
BodyIds == {1, 2}
Refs == {[current |-> Null], [current |-> 1]}

NextWind ==
  \/ TogglePhysics
  \/ \E enabled \in BOOLEAN : SetPhysicsEnabled(enabled)
  \/ TogglePause
  \/ \E paused \in BOOLEAN : SetPaused(paused)
  \/ \E intensity \in WindIntensities : SetWindIntensity(intensity)
  \/ \E mode \in WindModes : SetWindMode(mode)
  \/ \E direction \in WindDirections : SetWindDirection(direction)
  \/ \E nodeId \in BodyIds, ref \in Refs : RegisterPhysicsRef(nodeId, ref)
  \/ \E nodeId \in BodyIds : UnregisterPhysicsRef(nodeId)
  \/ \E body \in {ref.current : ref \in Refs} \ {Null} : RemoveBody(body)
  \/ WindFrame

SpecWind == Init /\ [][NextWind]_vars

\* ------------------------------------------------------ pushing bodies
\* what the pointer and the mounted bodies pass: a body is named by the id of
\* its node
PointerPositions == {<<0, 0>>, <<500, -200>>}
PointerHits == {<<>>, <<1>>, <<3, 2>>}
PushForces == {[x |-> 1000, y |-> 0, z |-> 0]}

\* the frames of a drag are followed while the pointer is this far from the
\* reference point
DragFrame(A) ==
  /\ push.isDragging =>
       Abs(push.currentMousePos[1] - push.lastMousePos[1]) >= MinFrameDelta
  /\ A

NextPush ==
  \/ TogglePhysics
  \/ TogglePause
  \/ \E nodeId \in BodyIds : RegisterPhysicsRef(nodeId, [current |-> nodeId])
  \/ \E body \in BodyIds : RemoveBody(body)
  \/ \E pos \in PointerPositions, hits \in PointerHits : PointerDown(pos, hits)
  \/ \E pos \in PointerPositions : PointerMove(pos)
  \/ PointerUp
  \/ DragFrame(PushFrame)
  \/ \E nodeId \in BodyIds, impulse \in PushForces : ApplyImpulse(nodeId, impulse)
  \/ \E nodeId \in BodyIds, force \in PushForces : ApplyForce(nodeId, force)

SpecPush == Init /\ [][NextPush]_vars

\* ------------------------------------------------ cloneTree and blobPoints
\* InstructionsModal.handleShapeChange and handleRegenerateBlobPoints: a weight
\* of the organic shape holds blobPoints, an array of control points made for
\* it; the field holds the array's address
generateBlobPoints == [type |-> "points", points |-> <<[angle |-> 0, radius |-> 1000]>>]

organicWeight(weight, address) ==
  [f \in DOMAIN weight \cup {"blobPoints"} |->
     IF f = "blobPoints" THEN address
     ELSE IF f = "shape" THEN "organic"
     ELSE weight[f]]

RECURSIVE handleShapeChange(_, _)
handleShapeChange(h, weights) ==
  IF weights = <<>> THEN h
  ELSE LET w == Head(weights)
           points == Fresh(h)
           h1 == Alloc(h, points, generateBlobPoints)
       IN handleShapeChange([h1 EXCEPT ![w] = organicWeight(h1[w], points)], Tail(weights))

hasBlobPoints(obj) == "blobPoints" \in DOMAIN obj

\* the objects a tree holds: its nodes and the arrays its weights hold
Owned(h, a) ==
  Reach(h, a) \cup {h[w].blobPoints : w \in {x \in Reach(h, a) : hasBlobPoints(h[x])}}

\* the trees handed to cloneTree
CloneChildren ==
  { JsonNull, JsonWeight(1000, "#ef4444"),
    JsonArm(2000, 300, JsonWeight(1000, "#3b82f6"), JsonWeight(2000, "#3b82f6")) }
CloneTrees == { JsonArm(2000, 500, l, r) : l \in CloneChildren, r \in CloneChildren }

\* a tree of the store, some of its weights of the organic shape
CloneInit ==
  \E tree \in CloneTrees :
    LET m == createMobileFromPreset(<<>>, tree)
        order == LiveOrder(m.heap, <<m.root>>)
        h == Collect(m.heap, <<m.root>>)
        root == NewAddr(order, m.root)
        weights == {a \in Reach(h, root) : h[a].type = "weight"}
    IN \E organic \in SUBSET weights :
         /\ heap = handleShapeChange(h, SelectSeq(PreOrder(h, root), LAMBDA a : a \in organic))
         /\ mobile = root
         /\ selectedId = Null
         /\ isAnimating = FALSE
         /\ viewMode = "flat"
         /\ armYawAngles = <<>>
         /\ idCounter = m.idCounter
         /\ runs = <<>>
         /\ presetTimer = 0
         /\ importResult = [success |-> TRUE]
         /\ calls = [edit |-> 0, update |-> 0, load |-> 0, autoBalance |-> 0]
         /\ frameCalls = 0
         /\ lastOp = [op |-> "init", applied |-> FALSE]
         /\ intact = TRUE
         /\ files = {}
         /\ physics = InitialPhysics
         /\ forces = <<>>
         /\ orbitControlsEnabled = TRUE
         /\ push = InitialPush
         /\ removed = {}
         /\ resumeTimers = 0

CloneTree(a) == Returns("cloneTree", a, cloneTree(heap, a))

NextClone == \E a \in Reach(heap, mobile) \cup {Null} : CloneTree(a)

SpecClone == CloneInit /\ [][NextClone]_vars

\* ------------------------------------------- collisions and reset to equilibrium
\* addCollision appends the pair to collisionsDetected
AddCollision(pair) ==
  /\ Len(physics.collisionsDetected) < MaxCollisions
  /\ SetPhysics("addCollision", [physics EXCEPT !.collisionsDetected = Append(@, pair)])

ClearCollisions == SetPhysics("clearCollisions", [physics EXCEPT !.collisionsDetected = <<>>])

\* resetToEquilibrium: pauses, empties collisionsDetected and starts a timer of
\* 100 ms; nothing cancels a timer
ResetToEquilibrium ==
  /\ resumeTimers < MaxPendingResets
  /\ UserCall
  /\ physics' = [physics EXCEPT !.isPaused = TRUE, !.collisionsDetected = <<>>]
  /\ resumeTimers' = resumeTimers + 1
  /\ lastOp' = [op |-> "resetToEquilibrium", applied |-> FALSE]
  /\ UNCHANGED <<heap, mobile, selectedId, isAnimating, viewMode, armYawAngles, idCounter,
                 runs, presetTimer, importResult, calls, intact, files, forces,
                 orbitControlsEnabled, push, removed>>

\* the timer's callback toggling the pause
resume_Toggle(p) == [p EXCEPT !.isPaused = ~@]

\* the callback of the timer: set({ isPaused: false })
resume(p) == [p EXCEPT !.isPaused = FALSE]

\* the oldest pending timer of resetToEquilibrium fires
ResumeTimer ==
  /\ resumeTimers > 0
  /\ physics' = resume(physics)
  /\ resumeTimers' = resumeTimers - 1
  /\ lastOp' = [op |-> "resetToEquilibrium.setTimeout", applied |-> FALSE]
  /\ UNCHANGED <<heap, mobile, selectedId, isAnimating, viewMode, armYawAngles, idCounter,
                 runs, presetTimer, importResult, calls, frameCalls, intact, files, forces,
                 orbitControlsEnabled, push, removed>>

CollisionPairs == {[nodeA |-> 1, nodeB |-> 2]}

NextPause ==
  \/ TogglePhysics
  \/ \E enabled \in BOOLEAN : SetPhysicsEnabled(enabled)
  \/ TogglePause
  \/ \E paused \in BOOLEAN : SetPaused(paused)
  \/ \E pair \in CollisionPairs : AddCollision(pair)
  \/ ClearCollisions
  \/ ResetToEquilibrium
  \/ ResumeTimer

\* a timer that was started fires
SpecPause == Init /\ [][NextPause]_vars /\ WF_vars(ResumeTimer)

\* ------------------------------------------------------- PhysicsProvider
\* setTimeScale clamps to [0.1, 1.0]
SetTimeScale(scale) ==
  SetPhysics("setTimeScale", [physics EXCEPT !.timeScale = Max(100, Min(1000, scale))])

\* what PhysicsProvider renders: no Physics element while physics is disabled,
\* else the Physics element with these props; timeScale is read and not used
PhysicsProvider(p) ==
  IF ~p.physicsEnabled THEN [physics |-> FALSE]
  ELSE [physics |-> TRUE, paused |-> p.isPaused, timeStep |-> baseTimestep]

\* One rendered frame of `delta` microseconds: the Physics element advances the
\* world by steps of timeStep, one for every whole timeStep of frame time, and
\* by none while paused
PhysicsStep(delta) ==
  LET props == PhysicsProvider(physics)
  IN /\ props.physics
     /\ lastOp' = [op |-> "Physics.useFrame", applied |-> FALSE, delta |-> delta,
                   timeStep |-> props.timeStep,
                   simulated |-> IF props.paused THEN 0
                                 ELSE (delta \div props.timeStep) * props.timeStep]
     /\ UNCHANGED <<heap, mobile, selectedId, isAnimating, viewMode, armYawAngles, idCounter,
                    runs, presetTimer, importResult, calls, frameCalls, intact, files, physics,
                    forces, orbitControlsEnabled, push, removed, resumeTimers>>

TimeScales == {0, 300, 500, 700, 1000, 2000}
FrameDeltas == {baseTimestep, 2 * baseTimestep, 3 * baseTimestep, 4 * baseTimestep}

NextTime ==
  \/ TogglePhysics
  \/ \E enabled \in BOOLEAN : SetPhysicsEnabled(enabled)
  \/ TogglePause
  \/ \E paused \in BOOLEAN : SetPaused(paused)
  \/ \E scale \in TimeScales : SetTimeScale(scale)
  \/ \E delta \in FrameDeltas : PhysicsStep(delta)

SpecTime == Init /\ [][NextTime]_vars

\* ---------------------------------------------------------- properties
Nodes == Reach(heap, mobile)
Weights == {a \in Nodes : heap[a].type = "weight"}
Arms == {a \in Nodes : heap[a].type = "arm"}

\* C1: in every state of an editing session (expandWeight, deleteNode,
\* updateArm, updateWeight, autoBalance and its animation frames, resetMobile)
\* the session tree has at most 5 levels, the root being level 1.
C1_DepthBound == calculateDepth(heap, mobile) <= 5

\* an expansion has just produced a tree of 5 levels
C1_Witness ==
  /\ calculateDepth(heap, mobile) = 5
  /\ lastOp = [op |-> "expandWeight", applied |-> TRUE]

RECURSIVE FullBinary(_, _)
FullBinary(h, a) ==
  /\ a # Null
  /\ \/ h[a].type = "weight"
     \/ /\ h[a].type = "arm"
        /\ FullBinary(h, h[a].leftChild)
        /\ FullBinary(h, h[a].rightChild)

\* C3: in every state of an editing session the session tree is a full binary
\* tree whose root is an arm: every arm has two non-null children, every leaf
\* is a weight, and there is one weight more than there are arms.
C3_TreeShape ==
  /\ heap[mobile].type = "arm"
  /\ FullBinary(heap, mobile)
  /\ Cardinality(Weights) = Cardinality(Arms) + 1

\* a subtree with an arm in it has just been deleted from a tree of 7 nodes
C3_Witness ==
  /\ lastOp = [op |-> "deleteNode", applied |-> TRUE]
  /\ countNodes(heap, mobile) = 5
  /\ idCounter = 10

\* C4: expandWeight, deleteNode, updateArm, updateWeight and every animation
\* frame leave the objects of the tree that was the session tree before the
\* step as they were, and replace the session's tree reference by a new object.
C4_NoInPlaceMutation == intact

\* an animation frame has replaced a tree that an update had installed
C4_Witness ==
  /\ intact
  /\ lastOp = [op |-> "animate", applied |-> TRUE]
  /\ calls.edit = 1
  /\ \E a \in Arms : heap[a].length = ARM_LENGTH_MAX

\* C2: in every state of a session that expands, deletes, resets, loads
\* presets, imports and auto-balances, no two nodes of the session tree carry
\* the same id.
C2_UniqueIds == \A a, b \in Nodes : heap[a].id = heap[b].id => a = b

\* ---- trees as values, to compare the tree before and after an operation
NullValue == [type |-> "null"]

RECURSIVE TreeValue(_, _)
TreeValue(h, a) ==
  IF a = Null THEN NullValue
  ELSE IF h[a].type = "arm"
       THEN [h[a] EXCEPT !.leftChild = TreeValue(h, h[a].leftChild),
                         !.rightChild = TreeValue(h, h[a].rightChild)]
       ELSE h[a]

\* the nodes of a tree with the path from the root to each: "L" left, "R" right
RECURSIVE PathsFrom(_, _, _)
PathsFrom(h, a, path) ==
  IF a = Null THEN {}
  ELSE {<<a, path>>} \cup
       (IF h[a].type = "arm"
        THEN PathsFrom(h, h[a].leftChild, Append(path, "L"))
             \cup PathsFrom(h, h[a].rightChild, Append(path, "R"))
        ELSE {})

PathOf(a) == (CHOOSE x \in PathsFrom(heap, mobile, <<>>) : x[1] = a)[2]
DepthOf(a) == Len(PathOf(a)) + 1

RECURSIVE ValueAt(_, _)
ValueAt(v, path) ==
  IF path = <<>> THEN v
  ELSE IF Head(path) = "L" THEN ValueAt(v.leftChild, Tail(path))
  ELSE ValueAt(v.rightChild, Tail(path))

RECURSIVE SubstAt(_, _, _)
SubstAt(v, path, new) ==
  IF path = <<>> THEN new
  ELSE IF Head(path) = "L"
       THEN [v EXCEPT !.leftChild = SubstAt(v.leftChild, Tail(path), new)]
  ELSE [v EXCEPT !.rightChild = SubstAt(v.rightChild, Tail(path), new)]

\* a weight with createWeight's default mass, shape, size, wire and thickness
DefaultGeometry(v) ==
  /\ v.type = "weight"
  /\ v.mass = 1000 /\ v.shape = "sphere" /\ v.size = 300
  /\ v.wireLength = 700 /\ v.thickness = 50

\* what expandWeight(heap[w].id) must do to the state, w a weight of the tree
ExpandEffect(w) ==
  LET st == expandWeight(CurrentState, heap[w].id)
      old == TreeValue(heap, mobile)
      new == TreeValue(st.heap, st.mobile)
      arm == ValueAt(new, PathOf(w))
  IN /\ arm.type = "arm"
     /\ arm.length = 2000 /\ arm.pivotPosition = 500
     /\ arm.wireLength = heap[w].wireLength
     /\ DefaultGeometry(arm.leftChild) /\ arm.leftChild.color = heap[w].color
     /\ DefaultGeometry(arm.rightChild)
     /\ Cardinality({arm.id, arm.leftChild.id, arm.rightChild.id}) = 3
     /\ {arm.id, arm.leftChild.id, arm.rightChild.id} \cap Ids(heap, mobile) = {}
     /\ countNodes(st.heap, st.mobile) = countNodes(heap, mobile) + 2
     /\ new = SubstAt(old, PathOf(w), arm)
     /\ st.selectedId = Null

\* C5: for every non-root weight w of the session tree that canExpandAt
\* accepts, expandWeight(w.id) puts in w's slot a new arm (length 2, pivot 0.5,
\* w's wireLength) over two fresh default weights, the left one with w's
\* colour; the three ids are new to the tree, the tree has two nodes more,
\* every other node is as it was and selectedId is null.
C5_ExpandEffect ==
  \A w \in Weights :
    (w # mobile /\ canExpandAt(heap, mobile, heap[w].id)) => ExpandEffect(w)

\* C6: expandWeight(id) with the id of a weight at level 5, or with any id
\* that canExpandAt refuses (an unknown id, the id of an arm), leaves the tree,
\* selectedId, armYawAngles and the id counter as they were.
C6_NoOpAtMaxDepth ==
  \A id \in IdArgs :
    (\/ \E w \in Weights : heap[w].id = id /\ DepthOf(w) = 5
     \/ ~canExpandAt(heap, mobile, id))
    => expandWeight(CurrentState, id) = CurrentState

RECURSIVE ValueDepth(_)
ValueDepth(v) ==
  IF v.type = "arm" THEN 1 + Max(ValueDepth(v.leftChild), ValueDepth(v.rightChild))
  ELSE IF v.type = "weight" THEN 1
  ELSE 0

\* the nodes of the session tree that carry the id
Carriers(id) == {a \in Nodes : heap[a].id = id}

\* the tree with the weight w replaced by an arm over two weights
Expanded(w) ==
  SubstAt(TreeValue(heap, mobile), PathOf(w),
          [type |-> "arm", leftChild |-> [type |-> "weight"],
           rightChild |-> [type |-> "weight"]])

\* C7: for an id that identifies a node of the session tree (one node carries
\* it) or no node at all, canExpandAt is true exactly when the node is a
\* weight above level 5 (the root being level 1); for such a weight it is
\* false exactly when the tree with the weight expanded has more than 5 levels.
C7_CanExpandAt ==
  \A id \in IdArgs :
    Cardinality(Carriers(id)) <= 1 =>
      /\ canExpandAt(heap, mobile, id)
           <=> \E w \in Carriers(id) : heap[w].type = "weight" /\ DepthOf(w) < 5
      /\ \A w \in Carriers(id) \cap Weights :
           ~canExpandAt(heap, mobile, id) <=> ValueDepth(Expanded(w)) > 5

\* expandWeight has just been refused in a tree that has a weight at level 5,
\* which canExpandAt refuses, and a weight at level 4, which it accepts
C7_Witness ==
  /\ lastOp = [op |-> "expandWeight", applied |-> FALSE]
  /\ \E w \in Weights : /\ DepthOf(w) = 5
                        /\ Cardinality(Carriers(heap[w].id)) = 1
                        /\ ~canExpandAt(heap, mobile, heap[w].id)
  /\ \E w \in Weights : /\ DepthOf(w) = 4
                        /\ Cardinality(Carriers(heap[w].id)) = 1
                        /\ canExpandAt(heap, mobile, heap[w].id)

\* what deleteNode(heap[n].id) must do to the state, n a node below the root
DeleteEffect(n) ==
  LET st == deleteNode(CurrentState, heap[n].id)
      old == TreeValue(heap, mobile)
      new == TreeValue(st.heap, st.mobile)
      weight == ValueAt(new, PathOf(n))
  IN /\ DefaultGeometry(weight) /\ weight.color = "#3b82f6"
     /\ weight.id \notin Ids(heap, mobile)
     /\ new = SubstAt(old, PathOf(n), weight)
     /\ st.selectedId = Null

\* C8: deleteNode(n.id), n a node below the root, puts one fresh default
\* weight with a new id in the slot of n and its subtree, leaves every node
\* outside that subtree as it was and sets selectedId to null; deleteNode with
\* the root's id or with an id that is not in the tree changes nothing.
C8_DeleteEffect ==
  /\ \A n \in Nodes \ {mobile} : DeleteEffect(n)
  /\ \A id \in {heap[mobile].id, UnknownId} :
       deleteNode(CurrentState, id) = CurrentState

\* the ranges of the geometry fields, in thousandths of a scene unit
Range ==
  [pivotPosition |-> <<100, 900>>, length |-> <<1000, 10000>>,
   wireLength |-> <<200, 3000>>, mass |-> <<100, 10000>>, size |-> <<100, 1000>>]

InRange(f, v) == Range[f][1] <= v /\ v <= Range[f][2]

Clamped(f, v) ==
  IF v < Range[f][1] THEN Range[f][1]
  ELSE IF v > Range[f][2] THEN Range[f][2]
  ELSE v

C9_RangesOK ==
  /\ \A a \in Arms : \A f \in {"pivotPosition", "length", "wireLength"} :
       InRange(f, heap[a][f])
  /\ \A w \in Weights : \A f \in {"mass", "size", "wireLength"} :
       InRange(f, heap[w][f])

\* the step is an update of the node n with the fields of u: afterwards the
\* tree is the old one with each field of u set, clamped, in n
Updated(n, u) ==
  LET v == TreeValue(heap, n)
  IN TreeValue(heap', mobile') =
       SubstAt(TreeValue(heap, mobile), PathOf(n),
               [f \in DOMAIN v |-> IF f \in DOMAIN u THEN Clamped(f, u[f]) ELSE v[f]])

C9_UpdateApplied ==
  \A id \in IdArgs :
    /\ \A u \in GeomArmUpdates \cup ArmUpdates :
         UpdateArm(id, u) => \A n \in Carriers(id) \cap Arms : Updated(n, u)
    /\ \A u \in GeomWeightUpdates \cup WeightUpdates :
         (UpdateWeight(id, u) /\ DOMAIN u \subseteq DOMAIN Range)
           => \A n \in Carriers(id) \cap Weights : Updated(n, u)

\* C9: updateArm and updateWeight apply every update of an existing node of
\* the matching type, with pivotPosition clamped to [0.1, 0.9], arm length to
\* [1, 10], wireLength to [0.2, 3], mass to [0.1, 10] and size to [0.1, 1]; in
\* every state of a session of updates every node's fields are in these ranges.
C9_Clamping == []C9_RangesOK /\ [][C9_UpdateApplied]_vars

\* a mass below the range has just been applied as 0.1, after a pivot above
\* the range was applied as 0.9
C9_Witness ==
  /\ lastOp = [op |-> "updateWeight", applied |-> TRUE]
  /\ heap[mobile].pivotPosition = 900
  /\ \E w \in Weights : heap[w].mass = 100

C10_PivotsInRange ==
  \A a \in Arms : 100 <= heap[a].pivotPosition /\ heap[a].pivotPosition <= 900

\* the step is an animation frame: the tree it installs is that of the last
\* pending closure, each arm's pivot interpolated from the closure's initial
\* and target pivots
C10_Tick ==
  lastOp'.op = "animate" =>
    LET run == runs[Len(runs)]
        elapsedMs == Min(500, run.elapsed + FrameMs)
        progress == Min(1000, (elapsedMs * 1000) \div 500)
        eased == 1000 - ((1000 - progress) * (1000 - progress) * (1000 - progress))
                          \div 1000000
    IN \A a \in Reach(heap', mobile') :
         heap'[a].type = "arm" =>
           LET initial == run.initialPivots[heap'[a].id]
               target == run.targetPivots[heap'[a].id]
           IN heap'[a].pivotPosition = initial + ((target - initial) * eased) \div 1000

TargetQuotient(h, a) ==
  LET leftMass == calculateSubtreeMass(h, h[a].leftChild)
      rightMass == calculateSubtreeMass(h, h[a].rightChild)
      armMass == 100 + (50 * h[a].length) \div 1000
  IN ((rightMass + armMass \div 2) * 1000) \div (leftMass + rightMass + armMass)

TargetPivot(h, a) == Max(100, Min(900, TargetQuotient(h, a)))

\* a tree value with every pivotPosition erased
RECURSIVE NoPivots(_)
NoPivots(v) ==
  IF v.type = "arm"
  THEN [v EXCEPT !.pivotPosition = 0, !.leftChild = NoPivots(v.leftChild),
                 !.rightChild = NoPivots(v.rightChild)]
  ELSE v

\* |x| <= tol/1000 of the full scale
Within(x, scale, tol) == Abs(x.num) <= (tol * scale * x.den) \div 1000

\* the step is the last tick of an animation
FinalTick == runs # <<>> /\ runs' = <<>>

C11_Completes ==
  FinalTick =>
    /\ lastOp'.op = "animate"
    /\ \A i \in DOMAIN runs : Min(500, runs[i].elapsed + FrameMs) = 500
    /\ ~isAnimating'
    /\ \A a \in Reach(heap', mobile') :
         heap'[a].type = "arm" => heap'[a].pivotPosition = TargetPivot(heap', a)
    /\ NoPivots(TreeValue(heap', mobile')) = NoPivots(TreeValue(heap, mobile))
    /\ UNCHANGED <<selectedId, viewMode, armYawAngles, idCounter>>

C11_LevelExactly ==
  FinalTick =>
    \A a \in Reach(heap', mobile') :
      (heap'[a].type = "arm" /\ TargetPivot(heap', a) = TargetQuotient(heap', a))
        => calculateTiltAngle(heap', a).num = 0

C11_LevelRounded ==
  FinalTick =>
    \A a \in Reach(heap', mobile') :
      (heap'[a].type = "arm" /\ TargetPivot(heap', a) = TargetQuotient(heap', a))
        => Within(calculateTiltAngle(heap', a), MAX_TILT, RoundingTolerance)

C11_Terminates == (runs # <<>>) ~> (runs = <<>> /\ ~isAnimating)

C12_Balanced(op) ==
  /\ lastOp.op = op /\ lastOp.node # Null
  /\ heap[lastOp.node].type = "arm" /\ heap[lastOp.node].length > 0
  /\ LET a == lastOp.node
         leftMass == calculateSubtreeMass(heap, heap[a].leftChild)
         rightMass == calculateSubtreeMass(heap, heap[a].rightChild)
         armMass == 100 + (50 * heap[a].length) \div 1000
     IN heap[a].pivotPosition
          = ((rightMass + armMass \div 2) * 1000) \div (leftMass + rightMass + armMass)

C13_ArmInRange(op) ==
  /\ lastOp.op = op /\ lastOp.node # Null
  /\ heap[lastOp.node].type = "arm" /\ heap[lastOp.node].length >= 0
  /\ 100 <= heap[lastOp.node].pivotPosition /\ heap[lastOp.node].pivotPosition <= 900

\* totalTorque = totalMass * avgDistance is 0
C13_Degenerate ==
  LET a == lastOp.node
      total == calculateSubtreeMass(heap, heap[a].leftChild)
               + calculateSubtreeMass(heap, heap[a].rightChild)
               + (100 + (50 * heap[a].length) \div 1000)
  IN total = 0 \/ heap[a].length = 0

\* C13: for every arm with length >= 0, child masses >= 0 and pivot in
\* [0.1, 0.9], calculateTiltAngle returns a value in [-MAX_TILT, MAX_TILT] and
\* calculateBalanceRatio a value in [0, 1]; when totalTorque = 0 nothing is
\* divided by 0 and the results are exactly 0 and 1.
C13_OutputBounds ==
  /\ C13_ArmInRange("calculateTiltAngle") =>
       /\ lastOp.result.den > 0
       /\ -MAX_TILT * lastOp.result.den <= lastOp.result.num
       /\ lastOp.result.num <= MAX_TILT * lastOp.result.den
       /\ C13_Degenerate => lastOp.result = [num |-> 0, den |-> 1]
  /\ C13_ArmInRange("calculateBalanceRatio") =>
       /\ lastOp.result.den > 0
       /\ 0 <= lastOp.result.num
       /\ lastOp.result.num <= lastOp.result.den
       /\ C13_Degenerate => lastOp.result = [num |-> 1, den |-> 1]

\* calculateTiltAngle was called on an arm with pivot 0.1, nothing on the left
\* and a weight on the right, whose raw value is below -MAX_TILT, and returned
\* -MAX_TILT
C13_Witness ==
  /\ C13_ArmInRange("calculateTiltAngle") /\ ~C13_Degenerate
  /\ heap[lastOp.node].pivotPosition = 100
  /\ heap[lastOp.node].leftChild = Null /\ heap[lastOp.node].rightChild # Null
  /\ lastOp.result = [num |-> -MAX_TILT, den |-> 1]

\* ------------------------------------------------------------------ C14
\* leftTorque - rightTorque - armSelfTorque of the arm the call was made on,
\* per unit of length, in 10^-6
C14_NetTorque ==
  LET a == lastOp.node
      leftMass == calculateSubtreeMass(heap, heap[a].leftChild)
      rightMass == calculateSubtreeMass(heap, heap[a].rightChild)
      armMass == 100 + (50 * heap[a].length) \div 1000
      pivot == heap[a].pivotPosition
  IN (heap[a].length \div 1000)
       * (leftMass * pivot - rightMass * (1000 - pivot) - armMass * (500 - pivot))

\* the arm of length 4 with pivot 0.5, a left subtree of mass 2 and a right
\* subtree of mass 1
C14_Example ==
  LET a == lastOp.node
  IN /\ a # Null /\ heap[a].type = "arm"
     /\ heap[a].length = 4000 /\ heap[a].pivotPosition = 500
     /\ calculateSubtreeMass(heap, heap[a].leftChild) = 2000
     /\ calculateSubtreeMass(heap, heap[a].rightChild) = 1000

RECURSIVE C15_Mass(_)
C15_Mass(v) ==
  IF v.type = "weight" THEN v.mass
  ELSE IF v.type = "arm"
       THEN (100 + (50 * v.length) \div 1000) + C15_Mass(v.leftChild) + C15_Mass(v.rightChild)
       ELSE 0

RECURSIVE SameButIds(_, _)
SameButIds(json, v) ==
  IF json = JsonNull THEN v = NullValue
  ELSE /\ v # NullValue
       /\ "id" \notin DOMAIN json
       /\ DOMAIN v = DOMAIN json \cup {"id"}
       /\ \A f \in DOMAIN json :
            IF f \in {"leftChild", "rightChild"} THEN SameButIds(json[f], v[f])
            ELSE json[f] = v[f]

\* the weights of a JSON tree
RECURSIVE JsonWeights(_)
JsonWeights(json) ==
  IF json = JsonNull THEN {}
  ELSE IF json.type = "arm" THEN JsonWeights(json.leftChild) \cup JsonWeights(json.rightChild)
  ELSE {json}

\* the session tree exported and imported at once
C16_RoundTrip ==
  LET e == exportMobileToJSON(heap, mobile)
      m == importMobileFromJSON(heap, e)
  IN /\ importError(e) = ""
     /\ SameButIds(e.tree, TreeValue(heap, mobile))
     /\ SameButIds(e.tree, TreeValue(m.heap, m.root))

\* an export leaves the live tree as it is and adds the file of its snapshot;
\* the import of an exported file makes the session tree that snapshot
C16_ExportThenImport ==
  /\ lastOp'.op = "exportMobileJSON" =>
       /\ UNCHANGED <<heap, mobile, intact>>
       /\ \E f \in files' : SameButIds(f.tree, TreeValue(heap, mobile))
  /\ \A f \in files :
       ImportMobileJSON(f) =>
         /\ importResult' = [success |-> TRUE]
         /\ SameButIds(f.tree, TreeValue(heap', mobile'))

\* C16: for every valid tree t, importMobileFromJSON(exportMobileToJSON(t)) has
\* the shape of t and its value in every field but id at every node; the
\* exported tree has no id field; exporting does not change the live tree;
\* exporting, mutating the live tree and importing the earlier export makes
\* the session tree equal to the exported snapshot in everything except ids.
C16_ExportImportRoundTrip == []C16_RoundTrip /\ [][C16_ExportThenImport]_vars

\* the file of a five-node tree was exported, a node of the live tree was
\* deleted afterwards (the file has no weight of the colour deleteNode puts
\* in), and the import of the file has just made the session tree the snapshot
C16_Witness ==
  /\ lastOp = [op |-> "importMobileJSON", applied |-> TRUE]
  /\ calls.edit = 1
  /\ \E f \in files :
       /\ f.tree.type = "arm"
       /\ Cardinality(JsonWeights(f.tree)) = 3
       /\ \A w \in JsonWeights(f.tree) : w.color # "#3b82f6"
       /\ SameButIds(f.tree, TreeValue(heap, mobile))

\* ------------------------------------------------------------------ C17
\* the values importMobileFromJSON rejects: null, an object without tree, a
\* tree whose type is neither 'arm' nor 'weight'
C17_Rejected ==
  { JsonNull, [version |-> "1.0"], [version |-> "1.0", tree |-> [type |-> "beam"]] }

\* C17: importMobileJSON called with null, with a value without tree or with a
\* tree whose type is neither 'arm' nor 'weight' returns
\* {success: false, error: <message>} and leaves the session tree, selectedId,
\* isAnimating, armYawAngles and the id counter as they were.
C17_RejectedImportNoOp ==
  [][\A json \in C17_Rejected :
       ImportMobileJSON(json) =>
         /\ importResult'.success = FALSE
         /\ importResult'.error \in {"Invalid mobile format: missing tree data",
                                     "Invalid mobile format: root must be an arm or weight"}
         /\ TreeValue(heap', mobile') = TreeValue(heap, mobile)
         /\ UNCHANGED <<heap, mobile, selectedId, isAnimating, armYawAngles, idCounter>>]_vars

\* an import has just been rejected for the type of its root, in a session
\* whose tree is no longer the initial one and whose animation is running
C17_Witness ==
  /\ lastOp = [op |-> "importMobileJSON", applied |-> FALSE]
  /\ importResult = [success |-> FALSE,
                     error |-> "Invalid mobile format: root must be an arm or weight"]
  /\ isAnimating /\ runs # <<>>
  /\ countNodes(heap, mobile) = 5 /\ idCounter = 6

\* ------------------------------------------------------------------ C18
\* the step is a successful importMobileJSON or loadPreset
C18_Loaded ==
  \/ lastOp' = [op |-> "importMobileJSON", applied |-> TRUE]
  \/ lastOp' = [op |-> "loadPreset", applied |-> TRUE]

\* the nodes of the new tree carry 1 .. n in pre-order and the counter is n
C18_PreOrderIds ==
  LET order == PreOrder(heap', mobile')
      n == Len(order)
  IN /\ \A i \in 1..n : heap'[order[i]].id = i
     /\ \A i, j \in 1..n : i # j => heap'[order[i]].id # heap'[order[j]].id
     /\ idCounter' = n
     /\ generateId(idCounter') = n + 1

C19_DefaultRootWire == wireLengthOf(heap, mobile) = DEFAULT_WIRE_LENGTH

\* what one mode has just placed is what the other mode places
C19_Agree ==
  /\ lastOp.op = "Mobile" =>
       lastOp.result = calculateWorldPositions(heap, mobile, suspensionY)
  /\ lastOp.op = "PhysicsMobile" =>
       lastOp.result = Mobile(heap, mobile, armYawAngles)

\* C19: rest positions agree between the two modes: for every tree and every
\* node, the position and the arm rotation the analytical mode renders equal
\* the initial position and rotation calculateWorldPositions gives the node's
\* body, so switching between the modes moves no node.
C19_RestPositionsAgree == C19_Agree

\* the two modes do agree on every tree whose root wire has the default length
C19_AgreeUnderDefaultRootWire == C19_DefaultRootWire => C19_Agree

\* ------------------------------------------------------------------ C20
\* the frame just run was one with the wind off: intensity 0, paused, or
\* physics disabled
C20_WindOff ==
  /\ lastOp.op = "WindSystem.useFrame"
  /\ physics.windIntensity = 0 \/ physics.isPaused \/ ~physics.physicsEnabled

\* C20: in any frame in which windIntensity is 0, or isPaused is true, or
\* physics is disabled, the wind system applies no force to any registered
\* body, whatever windMode and windDirection are.
C20_NoWindWhenOff == C20_WindOff => forces = <<>>

\* a frame has run while paused, with wind set and a body registered, and no
\* force was applied
C20_Witness ==
  /\ C20_WindOff
  /\ physics.isPaused /\ physics.physicsEnabled /\ physics.windIntensity > 0
  /\ physics.windMode = "turbulent"
  /\ windBodies(physics) # {}
  /\ forces = <<>>

\* ------------------------------------------------------------------ C21
\* the callbacks that apply a force or an impulse
C21_Callbacks ==
  {"WindSystem.useFrame", "PushInteraction.useFrame", "handlePointerUp",
   "useApplyImpulse", "useApplyForce"}

\* the wind frame just run has served every registered body the engine still has
C21_OthersServed ==
  (lastOp.op = "WindSystem.useFrame" /\ physics.physicsEnabled /\ ~windIsOff(physics)) =>
     \A i \in DOMAIN windEntries(physics) :
        LET e == windEntries(physics)[i]
        IN ~Rejects(e.ref.current) => e.nodeId \in DOMAIN forces

\* C21: whenever a target body rejects a call, the failure is swallowed: no
\* exception leaves the per-frame callbacks, the pointer handler or the hooks,
\* the other registered bodies still receive their wind force in that frame,
\* and a drag in progress is reset on release.
C21_RejectedCallsAreSwallowed ==
  /\ lastOp.op \in C21_Callbacks => ~lastOp.thrown
  /\ C21_OthersServed
  /\ lastOp.op = "handlePointerUp" => ~push.isDragging /\ push.draggedBody = Null

\* the part of C21 that is about PushInteraction and the hooks
C21_PushSwallows ==
  /\ lastOp.op \in C21_Callbacks \ {"WindSystem.useFrame"} => ~lastOp.thrown
  /\ lastOp.op = "handlePointerUp" => ~push.isDragging /\ push.draggedBody = Null

\* ------------------------------------------------------------------ C25
\* the impulse is computed from the reference point, which every frame of the
\* drag has moved towards the pointer
C25_ImpulseFromReference ==
  (lastOp.op = "handlePointerUp" /\ lastOp.calls # <<>>) =>
     lastOp.calls[1].value =
       releaseImpulse(push.currentMousePos[1] - push.lastMousePos[1],
                      push.currentMousePos[2] - push.lastMousePos[2])

\* C25: when a drag ends, the dragged body receives exactly one impulse, and
\* that impulse is proportional to the total drag delta: the pointer position
\* at release minus the pointer position at pointer-down, whatever number of
\* frames passed during the drag; a pointer-up without an active drag applies
\* no impulse.
C25_ReleaseImpulse ==
  lastOp.op = "handlePointerUp" =>
     /\ ~lastOp.dragging => lastOp.calls = <<>>
     /\ lastOp.dragging =>
          /\ Len(lastOp.calls) <= 1
          /\ removed = {} => Len(lastOp.calls) = 1
          /\ \A i \in DOMAIN lastOp.calls :
               /\ lastOp.calls[i].call = "applyImpulse"
               /\ lastOp.calls[i].value =
                    releaseImpulse(push.currentMousePos[1] - push.downMousePos[1],
                                   push.currentMousePos[2] - push.downMousePos[2])

\* ------------------------------------------------------------------ C26
\* a drag starts only in a step taken while physics is enabled and running
C26_DragStartsRunning ==
  [][(~push.isDragging /\ push'.isDragging) =>
       (physics.physicsEnabled /\ ~physics.isPaused)]_vars

\* C26: in every frame in which isPaused is true no force and no impulse is
\* applied to any body, neither by the wind system nor by a drag, including
\* the per-frame force and the release impulse of a drag that began before
\* the pause.
C26_NoForceWhilePaused ==
  physics.isPaused =>
     /\ lastOp.op = "WindSystem.useFrame" => forces = <<>>
     /\ lastOp.op \in {"PushInteraction.useFrame", "handlePointerUp"} => lastOp.calls = <<>>

\* a tree as a value, the array of an organic weight in place of its address
RECURSIVE DeepValue(_, _)
DeepValue(h, a) ==
  IF a = Null THEN NullValue
  ELSE IF h[a].type = "arm"
       THEN [h[a] EXCEPT !.leftChild = DeepValue(h, h[a].leftChild),
                         !.rightChild = DeepValue(h, h[a].rightChild)]
       ELSE IF hasBlobPoints(h[a]) THEN [h[a] EXCEPT !.blobPoints = h[h[a].blobPoints]]
       ELSE h[a]

\* cloneTree returns a tree of the same structure and field values, made of
\* new node objects, and leaves the objects of its argument as they were
C22_SameValueNewNodes ==
  lastOp.op = "cloneTree" =>
    LET c == lastOp.result
    IN /\ DeepValue(c.heap, c.root) = DeepValue(heap, lastOp.node)
       /\ Reach(c.heap, c.root) \cap Reach(heap, lastOp.node) = {}
       /\ SubSeq(c.heap, 1, Len(heap)) = heap

\* C22: cloneTree(t) returns a tree with the structure and field values of t
\* that shares no mutable object with t: no node object and no nested value a
\* node holds, such as a weight's blobPoints array, is reachable from both
C22_CloneSharesNothing ==
  lastOp.op = "cloneTree" =>
    LET c == lastOp.result
    IN /\ DeepValue(c.heap, c.root) = DeepValue(heap, lastOp.node)
       /\ Owned(c.heap, c.root) \cap Owned(heap, lastOp.node) = {}

\* solveMobile(node) returns one entry per node of the subtree, the node first,
\* then its left subtree, then its right subtree
C23_Entries ==
  lastOp.op = "solveMobile" =>
    LET order == PreOrder(heap, lastOp.node)
    IN /\ Len(lastOp.result) = Len(order)
       /\ \A i \in DOMAIN order : lastOp.result[i].id = heap[order[i]].id

C23_Call ==
  lastOp'.op = "solveMobile" =>
    /\ heap' = heap
    /\ lastOp'.again => lastOp'.result = lastOp.result

C24_Arms == {b \in Reach(heap, lastOp.node) : heap[b].type = "arm"}
C24_LeftMass(b) == calculateSubtreeMass(heap, heap[b].leftChild)
C24_RightMass(b) == calculateSubtreeMass(heap, heap[b].rightChild)
C24_ArmMass(b) == 100 + (50 * heap[b].length) \div 1000
\* the arm with its pivot at the target
C24_AtTarget(b) == [heap EXCEPT ![b].pivotPosition = lastOp.result[heap[b].id]]

C27_Resuming == {"togglePause", "setPaused", "togglePhysics", "setPhysicsEnabled"}

C27_Step ==
  /\ lastOp'.op = "resetToEquilibrium" =>
       /\ physics'.isPaused
       /\ physics'.collisionsDetected = <<>>
       /\ resumeTimers' = resumeTimers + 1
  /\ lastOp'.op = "resetToEquilibrium.setTimeout" =>
       /\ ~physics'.isPaused
       /\ resumeTimers' = resumeTimers - 1
  /\ (resumeTimers > 0 /\ physics.isPaused /\ ~physics'.isPaused) =>
       lastOp'.op \in C27_Resuming \cup {"resetToEquilibrium.setTimeout"}
  /\ resumeTimers' # resumeTimers =>
       lastOp'.op \in {"resetToEquilibrium", "resetToEquilibrium.setTimeout"}

C28_TimeScaleInRange ==
  /\ physics.timeScale \in 100..1000
  /\ lastOp.op = "Physics.useFrame" => lastOp.simulated <= lastOp.delta

\* C28: timeScale is always within [0.1, 1.0], and the simulated time the
\* stepper advances per unit of real time is proportional to timeScale: with
\* timeScale < 1 a frame advances less simulated time than with timeScale = 1
C28_TimeScaleSlowsStepper ==
  /\ physics.timeScale \in 100..1000
  /\ lastOp.op = "Physics.useFrame" =>
       lastOp.simulated * 1000 <= lastOp.delta * physics.timeScale

\* isAnimating is false only in states where no autoBalance run has a tick
\* pending
C29_StoppedMeansNoTick == ~isAnimating => runs = <<>>

C29_StaleTick ==
  (~isAnimating /\ lastOp'.op = "animate") =>
    TreeValue(heap', mobile') = TreeValue(heap, mobile)

\* C29: once resetMobile, loadPreset or importMobileJSON has set isAnimating to
\* false and installed a new tree, no tick of an autoBalance run started
\* earlier writes the session tree any more: the installed tree is not
\* replaced by that run
C29_StoppedRunWritesNothing == [][C29_StaleTick]_vars

C30_Tick ==
  (isAnimating /\ lastOp'.op = "animate") =>
    NoPivots(TreeValue(heap', mobile')) = NoPivots(TreeValue(heap, mobile))

\* C30: the effect of an expandWeight, deleteNode, updateWeight or updateArm
\* applied between two animation ticks of a running autoBalance is still in
\* the session tree after the next tick: a tick changes pivotPosition values
\* only
C30_EditsSurviveTicks == [][C30_Tick]_vars

====
